---- MODULE Spec2Model ----
(***************************************************************************)
(* Model of the pharmacy pricing calculator of backend/server.py           *)
(* (calcular_precios_farmacia_detallado), of the HTTP endpoint that wraps  *)
(* it (calcular_precios_detallado) and of the handlers that store its      *)
(* output.                                                                 *)
(*                                                                         *)
(* Numbers.  The code computes with Python floats.  The model computes     *)
(* with exact rationals <<n, d>> (d > 0, lowest terms), so a float result  *)
(* is modelled by the real number it approximates; float overflow,         *)
(* underflow, NaN and infinities are outside the model.  round(x, 2) is    *)
(* Python's round-half-to-even applied to the exact value.                 *)
(*                                                                         *)
(* Strings.  A Python str is a sequence of one-character strings, so that  *)
(* split('+') and float() are modelled by what they do to the characters.  *)
(* float() is modelled on the characters of EscalaChars plus '.'; the      *)
(* other forms Python accepts (blanks, exponents, '_', inf, nan) are not   *)
(* in the alphabet.                                                        *)
(***************************************************************************)
EXTENDS Integers, Sequences, FiniteSets, TLC

(***************************************************************************)
(* Bounds of the model                                                     *)
(***************************************************************************)
\* costs of 0.01 .. MaxCentavos/100 are tried besides the round amounts
MaxCentavos == 4
\* purchase-scale strings of every length up to MaxLenEscala are tried
MaxLenEscala == 3
\* at most MaxUuids documents with a uuid4() identifier are created
MaxUuids == 2

(***************************************************************************)
(* Exact rationals                                                         *)
(***************************************************************************)
Abs(x) == IF x < 0 THEN -x ELSE x

RECURSIVE GCD(_, _)
GCD(a, b) == IF b = 0 THEN a ELSE GCD(b, a % b)

\* the rational n/d in lowest terms with a positive denominator (d # 0)
Rat(n, d) ==
    LET g == GCD(Abs(n), Abs(d))
        s == IF d < 0 THEN -1 ELSE 1
    IN  <<(s * n) \div g, (s * d) \div g>>

R(n) == <<n, 1>>

RAdd(a, b) ==
    LET g == GCD(a[2], b[2])
    IN  Rat(a[1] * (b[2] \div g) + b[1] * (a[2] \div g), (a[2] \div g) * b[2])

RNeg(a) == <<-a[1], a[2]>>
RSub(a, b) == RAdd(a, RNeg(b))

RMul(a, b) ==
    LET g1 == GCD(Abs(a[1]), b[2])
        g2 == GCD(Abs(b[1]), a[2])
    IN  IF a[1] = 0 \/ b[1] = 0 THEN <<0, 1>>
        ELSE <<(a[1] \div g1) * (b[1] \div g2), (a[2] \div g2) * (b[2] \div g1)>>

RIsZero(a) == a[1] = 0

\* a / b for b # 0 (the callers test for a zero divisor first)
RDiv(a, b) == RMul(a, IF b[1] < 0 THEN <<-b[2], -b[1]>> ELSE <<b[2], b[1]>>)

RLt(a, b) == a[1] * b[2] < b[1] * a[2]
RLe(a, b) == a[1] * b[2] <= b[1] * a[2]
RGt(a, b) == RLt(b, a)
RGe(a, b) == RLe(b, a)
RAbs(a) == <<Abs(a[1]), a[2]>>

Cero == <<0, 1>>
Uno == <<1, 1>>
Cien == <<100, 1>>

(***************************************************************************)
(* round(x, 2): the nearest multiple of 0.01, ties to the even multiple    *)
(***************************************************************************)
\* the integer nearest to n/d (d > 0), ties to even
RoundHalfEven(n, d) ==
    LET q == n \div d
        r == n - q * d
    IN  IF 2 * r < d THEN q
        ELSE IF 2 * r > d THEN q + 1
        ELSE IF q % 2 = 0 THEN q ELSE q + 1

round2(x) == Rat(RoundHalfEven(100 * x[1], x[2]), 100)

\* round(x, 1)
round1(x) == Rat(RoundHalfEven(10 * x[1], x[2]), 10)

\* int(x): truncation towards zero
int(x) == IF x[1] >= 0 THEN x[1] \div x[2] ELSE -((-x[1]) \div x[2])

(***************************************************************************)
(* Python strings as sequences of characters                               *)
(***************************************************************************)
Digitos == {"0", "1", "2", "3", "4", "5", "6", "7", "8", "9"}

DigitVal(c) ==
    CASE c = "0" -> 0 [] c = "1" -> 1 [] c = "2" -> 2 [] c = "3" -> 3
      [] c = "4" -> 4 [] c = "5" -> 5 [] c = "6" -> 6 [] c = "7" -> 7
      [] c = "8" -> 8 [] c = "9" -> 9

\* '+' in s
Contains(s, c) == \E i \in 1..Len(s) : s[i] = c

\* s.split(c): the pieces of s between the occurrences of c
RECURSIVE SplitFrom(_, _, _, _)
SplitFrom(s, c, i, cur) ==
    IF i > Len(s) THEN <<cur>>
    ELSE IF s[i] = c THEN <<cur>> \o SplitFrom(s, c, i + 1, <<>>)
    ELSE SplitFrom(s, c, i + 1, Append(cur, s[i]))

Split(s, c) == SplitFrom(s, c, 1, <<>>)

AllDigits(s) == \A i \in 1..Len(s) : s[i] \in Digitos

RECURSIVE DigitsVal(_)
DigitsVal(s) ==
    IF s = <<>> THEN 0 ELSE 10 * DigitsVal(SubSeq(s, 1, Len(s) - 1)) + DigitVal(s[Len(s)])

RECURSIVE Pow10(_)
Pow10(k) == IF k = 0 THEN 1 ELSE 10 * Pow10(k - 1)

\* an unsigned decimal literal: digits, digits '.', digits '.' digits, '.' digits
UnsignedOk(s) ==
    IF Contains(s, ".")
    THEN LET p == Split(s, ".")
         IN  /\ Len(p) = 2
             /\ AllDigits(p[1]) /\ AllDigits(p[2])
             /\ Len(p[1]) + Len(p[2]) > 0
    ELSE Len(s) > 0 /\ AllDigits(s)

UnsignedVal(s) ==
    IF Contains(s, ".")
    THEN LET p == Split(s, ".")
         IN  Rat(DigitsVal(p[1]) * Pow10(Len(p[2])) + DigitsVal(p[2]), Pow10(Len(p[2])))
    ELSE R(DigitsVal(s))

\* float(s) succeeds: an optional sign and an unsigned decimal literal
FloatOk(s) ==
    IF Len(s) > 0 /\ s[1] = "-" THEN UnsignedOk(Tail(s)) ELSE UnsignedOk(s)

\* float(s) when it succeeds
FloatVal(s) ==
    IF s[1] = "-" THEN RNeg(UnsignedVal(Tail(s))) ELSE UnsignedVal(s)

sin_escala == <<"s", "i", "n", "_", "e", "s", "c", "a", "l", "a">>

(***************************************************************************)
(* State                                                                   *)
(***************************************************************************)
VARIABLES
    medicamentos,       \* db.medicamentos: medication id -> stored document
    ventas,             \* db.ventas: the recorded sales, in insertion order
    alertas_farmacia,   \* db.alertas_farmacia: the recorded alerts
    pacientes,          \* db.pacientes: patient id -> stored document
    citas,              \* db.citas: the stored appointments
    uuids,              \* how many uuid4() identifiers have been generated
    resp,               \* the response to the latest request of a storing handler
    calc_prev,          \* the calculator invocation before the latest one
    calc_last,          \* the latest calculator invocation: arguments and outcome
    tareas              \* the requests in flight: each handler's position and locals

vars == <<medicamentos, ventas, alertas_farmacia, pacientes, citas, uuids, resp,
          calc_prev, calc_last, tareas>>

colecciones == <<medicamentos, ventas, alertas_farmacia, pacientes, citas>>

Ninguna == [op |-> "ninguna"]

(***************************************************************************)
(* calcular_precios_farmacia_detallado                                     *)
(***************************************************************************)
\* a target margin of 20%
MargenObjetivo_20 == <<1, 5>>

MargenObjetivo == <<1, 4>>       \* the literal 0.25
Tolerancia == <<49, 2>>          \* the literal 24.5

SinEscala(costo_con_impuesto) ==
    [costo_real |-> costo_con_impuesto,
     unidades_pagadas |-> Uno,
     unidades_recibidas |-> Uno,
     descripcion_escala |-> [texto |-> "Sin escala de compra", compra |-> 0, recibe |-> 0]]

\* the bonus units are not added to the units bought
UnidadesRecibidas_sin_compra(compra, bonus) == bonus

\* recibe = compra + bonus
UnidadesRecibidas(compra, bonus) == RAdd(compra, bonus)

\* AplicarEscala without the test len(partes) == 2
AplicarEscala_sin_len(escala_compra, costo_con_impuesto) ==
    IF Len(escala_compra) > 0 /\ escala_compra # sin_escala /\ Contains(escala_compra, "+")
    THEN LET partes == Split(escala_compra, "+")
         IN  IF ~FloatOk(partes[1]) \/ ~FloatOk(partes[2])
             THEN SinEscala(costo_con_impuesto)
             ELSE LET compra == FloatVal(partes[1])
                      bonus == FloatVal(partes[2])
                      recibe == UnidadesRecibidas(compra, bonus)
                  IN  IF RIsZero(recibe) THEN SinEscala(costo_con_impuesto)
                      ELSE [costo_real |-> RDiv(RMul(costo_con_impuesto, compra), recibe),
                            unidades_pagadas |-> compra,
                            unidades_recibidas |-> recibe,
                            descripcion_escala |->
                                [texto |-> "Compro y recibo", compra |-> int(compra),
                                 recibe |-> int(recibe)]]
    ELSE SinEscala(costo_con_impuesto)

\* step 2 of the function: the try block that parses the purchase scale.
\* A ValueError of float() and the ZeroDivisionError of the division by
\* recibe are caught, and leave the four locals at their defaults.
AplicarEscala(escala_compra, costo_con_impuesto) ==
    IF Len(escala_compra) > 0 /\ escala_compra # sin_escala /\ Contains(escala_compra, "+")
    THEN LET partes == Split(escala_compra, "+")
         IN  IF Len(partes) # 2 THEN SinEscala(costo_con_impuesto)
             ELSE IF ~FloatOk(partes[1]) \/ ~FloatOk(partes[2])
                  THEN SinEscala(costo_con_impuesto)
             ELSE LET compra == FloatVal(partes[1])
                      bonus == FloatVal(partes[2])
                      recibe == UnidadesRecibidas(compra, bonus)
                  IN  IF RIsZero(recibe) THEN SinEscala(costo_con_impuesto)
                      ELSE [costo_real |-> RDiv(RMul(costo_con_impuesto, compra), recibe),
                            unidades_pagadas |-> compra,
                            unidades_recibidas |-> recibe,
                            descripcion_escala |->
                                [texto |-> "Compro y recibo", compra |-> int(compra),
                                 recibe |-> int(recibe)]]
    ELSE SinEscala(costo_con_impuesto)

ZeroDivisionError == [estado |-> "raise", exc |-> "ZeroDivisionError"]

\* step 4: the public price; the divisor (1 - 0.25) * (1 - descuento / 100)
PrecioPublicoDivisor(descuento) ==
    RMul(RSub(Uno, MargenObjetivo), RSub(Uno, RDiv(descuento, Cien)))

\* steps 5 and 6 and the return statement: the margin after the discount,
\* the figures shown to the user and the returned dict.  The divisions by
\* precio_final_cliente and by costo_real raise ZeroDivisionError on 0.
Devolver(costo_unitario, impuesto, escala_compra, descuento, costo_con_impuesto, esc, precio_base, precio_publico, precio_final_cliente) ==
    IF RIsZero(precio_final_cliente) \/ RIsZero(esc.costo_real) THEN ZeroDivisionError
    ELSE [estado |-> "return",
          \* the locals at the return statement, before rounding
          locals |-> [costo_con_impuesto |-> costo_con_impuesto,
                      costo_real |-> esc.costo_real,
                      precio_base |-> precio_base,
                      precio_publico |-> precio_publico,
                      precio_final_cliente |-> precio_final_cliente,
                      margen_final |->
                          RMul(RDiv(RSub(precio_final_cliente, esc.costo_real),
                                    precio_final_cliente), Cien)],
          \* the returned dict
          ret |-> [costo_unitario_original |-> round2(costo_unitario),
                   impuesto_aplicado |-> impuesto,
                   costo_con_impuesto |-> round2(costo_con_impuesto),
                   escala_aplicada |-> escala_compra,
                   descripcion_escala |-> esc.descripcion_escala,
                   unidades_pagadas |-> esc.unidades_pagadas,
                   unidades_recibidas |-> esc.unidades_recibidas,
                   costo_real |-> round2(esc.costo_real),
                   precio_base |-> round2(precio_base),
                   precio_publico |-> round2(precio_publico),
                   descuento_aplicado |-> descuento,
                   precio_final_cliente |-> round2(precio_final_cliente),
                   margen_utilidad_final |->
                       round2(RMul(RDiv(RSub(precio_final_cliente, esc.costo_real),
                                        precio_final_cliente), Cien)),
                   utilidad_por_unidad |-> round2(RSub(precio_final_cliente, esc.costo_real)),
                   porcentaje_markup |->
                       round2(RMul(RDiv(RSub(precio_final_cliente, esc.costo_real),
                                        esc.costo_real), Cien)),
                   margen_garantizado |->
                       RGe(RMul(RDiv(RSub(precio_final_cliente, esc.costo_real),
                                     precio_final_cliente), Cien), Tolerancia),
                   mensaje_verificacion |->
                       [margen |-> round1(RMul(RDiv(RSub(precio_final_cliente, esc.costo_real),
                                                    precio_final_cliente), Cien)),
                        estado |-> IF RGe(RMul(RDiv(RSub(precio_final_cliente, esc.costo_real),
                                                    precio_final_cliente), Cien), Tolerancia)
                                   THEN "GARANTIZADO" ELSE "INSUFICIENTE"]]]

\* a markup of 25% on the cost instead of a margin of 25% of the price
PrecioBase_markup(costo_real) == RMul(costo_real, RAdd(Uno, MargenObjetivo))

\* step 3: precio_base = costo_real / (1 - 0.25)
PrecioBase(costo_real) == RDiv(costo_real, RSub(Uno, MargenObjetivo))

\* the discount is undone but the margin is not applied
PrecioPublico_sin_margen(costo_real, descuento) == RDiv(costo_real, RSub(Uno, RDiv(descuento, Cien)))

\* step 4, the branch descuento > 0:
\* precio_publico = costo_real / ((1 - 0.25) * (1 - descuento / 100))
PrecioPublico(costo_real, descuento) == RDiv(costo_real, PrecioPublicoDivisor(descuento))

\* the price the customer pays: precio_publico * (1 - descuento / 100)
PrecioFinalCliente(precio_publico, descuento) ==
    RMul(precio_publico, RSub(Uno, RDiv(descuento, Cien)))

\* steps 3 and 4 on the outcome of step 2
Precios(costo_unitario, impuesto, escala_compra, descuento, costo_con_impuesto, esc) ==
    IF RGt(descuento, Cero)
    THEN IF RIsZero(PrecioPublicoDivisor(descuento)) THEN ZeroDivisionError
         ELSE Devolver(costo_unitario, impuesto, escala_compra, descuento,
                       costo_con_impuesto, esc, PrecioBase(esc.costo_real),
                       PrecioPublico(esc.costo_real, descuento),
                       PrecioFinalCliente(PrecioPublico(esc.costo_real, descuento), descuento))
    ELSE Devolver(costo_unitario, impuesto, escala_compra, descuento,
                  costo_con_impuesto, esc, PrecioBase(esc.costo_real),
                  PrecioBase(esc.costo_real),
                  PrecioFinalCliente(PrecioBase(esc.costo_real), descuento))

\* the tax factor alone: the cost is not multiplied in
CostoConImpuesto_sin_costo(costo_unitario, impuesto) == RAdd(Uno, RDiv(impuesto, Cien))

\* step 1: costo_con_impuesto = costo_unitario * (1 + impuesto / 100)
CostoConImpuesto(costo_unitario, impuesto) ==
    RMul(costo_unitario, RAdd(Uno, RDiv(impuesto, Cien)))

Escalar(costo_unitario, impuesto, escala_compra, descuento, costo_con_impuesto) ==
    Precios(costo_unitario, impuesto, escala_compra, descuento, costo_con_impuesto,
            AplicarEscala(escala_compra, costo_con_impuesto))

\* the function with hidden state: the cost grows with a module-level counter
calcular_precios_farmacia_detallado_con_estado(costo_unitario, impuesto, escala_compra, descuento) ==
    Escalar(RAdd(costo_unitario, R(uuids)), impuesto, escala_compra, descuento,
            CostoConImpuesto(RAdd(costo_unitario, R(uuids)), impuesto))

calcular_precios_farmacia_detallado(costo_unitario, impuesto, escala_compra, descuento) ==
    Escalar(costo_unitario, impuesto, escala_compra, descuento,
            CostoConImpuesto(costo_unitario, impuesto))

(***************************************************************************)
(* verify_token and the calculator endpoint                                *)
(***************************************************************************)
TokenValido == <<"valid_token_1970">>

\* every bearer token is accepted
verify_token_cualquiera(token) == TRUE

verify_token(token) == token = TokenValido

HTTP(status, body) == [status |-> status, body |-> body]

\* POST /medicamentos/calcular-precios-detallado: the response.  An
\* exception that leaves the handler is answered with status 500.
Responder(resultado) ==
    IF resultado.estado = "raise"
    THEN HTTP("500", [detail |-> resultado.exc])
    ELSE HTTP("200", [resultado |-> resultado.ret,
                      mensaje |-> "Calculo completado con margen garantizado del 25%",
                      formulas_aplicadas |-> {"costo_real", "precio_base", "precio_publico"}])

\* the endpoint without the validation of impuesto
calcular_precios_detallado_sin_validar_impuesto(token, costo_unitario, impuesto, escala_compra, descuento) ==
    IF ~verify_token(token) THEN HTTP("401", [detail |-> "Token invalido"])
    ELSE IF RLe(costo_unitario, Cero)
    THEN HTTP("400", [detail |-> "El costo unitario debe ser mayor a 0"])
    ELSE IF RLt(descuento, Cero) \/ RGt(descuento, Cien)
    THEN HTTP("400", [detail |-> "El descuento debe estar entre 0 y 100%"])
    ELSE Responder(calcular_precios_farmacia_detallado(costo_unitario, impuesto,
                                                       escala_compra, descuento))

calcular_precios_detallado(token, costo_unitario, impuesto, escala_compra, descuento) ==
    IF ~verify_token(token) THEN HTTP("401", [detail |-> "Token invalido"])
    ELSE IF RLe(costo_unitario, Cero)
    THEN HTTP("400", [detail |-> "El costo unitario debe ser mayor a 0"])
    ELSE IF RLt(descuento, Cero) \/ RGt(descuento, Cien)
    THEN HTTP("400", [detail |-> "El descuento debe estar entre 0 y 100%"])
    ELSE IF RLt(impuesto, Cero) \/ RGt(impuesto, Cien)
    THEN HTTP("400", [detail |-> "El impuesto debe estar entre 0 y 100%"])
    ELSE Responder(calcular_precios_farmacia_detallado(costo_unitario, impuesto,
                                                       escala_compra, descuento))

(***************************************************************************)
(* Inputs of the calculator                                                *)
(***************************************************************************)
Costos ==
    {Rat(k, 100) : k \in 1..MaxCentavos} \cup {R(50), R(100)} \cup {R(0), Rat(-1, 100)}

Impuestos == {R(0), R(15), R(100), R(-1), R(101)}

Descuentos == {R(0), R(10), R(50), R(100), R(-1), R(101)}

EscalaChars == {"0", "1", "3", "+", "-"}

\* the scales of the tests and of the Medicamento model's comment, and
\* scales with a letter, a decimal point or a negative part
EscalasNombradas ==
    {sin_escala,
     <<"1", "0", "+", "3">>, <<"5", "+", "1">>, <<"2", "0", "+", "5">>,
     <<"1", "+", "9">>, <<"1", ".", "5", "+", "1">>,
     <<"x", "+", "1">>, <<"1", "+", "x">>, <<"1", "0", "x", "3">>,
     <<"5", "+", "-", "3">>, <<"-", "5", "+", "3">>, <<"3", "+", "-", "5">>,
     <<"5", "+", "-", "5">>, <<"0", "+", "5">>, <<"1", "+", "2", "+", "3">>}

Escalas ==
    EscalasNombradas \cup UNION {[1..k -> EscalaChars] : k \in 0..MaxLenEscala}

\* the scales tried through the endpoint and in two successive calls
EscalasComunes ==
    {sin_escala, <<"1", "0", "+", "3">>, <<"5", "+", "1">>, <<"1", "+", "9">>,
     <<"0", "+", "5">>, <<"x", "+", "1">>}

Tokens == {TokenValido, <<"otro_token">>}

Args(c, i, e, d) ==
    [costo_unitario |-> c, impuesto |-> i, escala_compra |-> e, descuento |-> d]

Pendiente(op, token, args) ==
    [op |-> op, token |-> token, args |-> args, pc |-> "pending", out |-> Ninguna]

(***************************************************************************)
(* The calculator on its own: Init draws the arguments of a call, the      *)
(* actions run the function or the endpoint on them.                       *)
(***************************************************************************)
InitColecciones ==
    /\ medicamentos = <<>>
    /\ ventas = <<>>
    /\ alertas_farmacia = <<>>
    /\ pacientes = <<>>
    /\ citas = <<>>
    /\ uuids = 0
    /\ resp = Ninguna
    /\ tareas = <<>>

InitCalc ==
    /\ InitColecciones
    /\ calc_prev = Ninguna
    /\ \/ \E c \in Costos, i \in Impuestos, e \in Escalas, d \in Descuentos :
              calc_last = Pendiente("funcion", TokenValido, Args(c, i, e, d))
       \/ \E t \in Tokens, c \in Costos, i \in Impuestos, e \in EscalasComunes,
             d \in Descuentos :
              calc_last = Pendiente("endpoint", t, Args(c, i, e, d))

\* a direct call of calcular_precios_farmacia_detallado
LlamarFuncion ==
    /\ calc_last.op = "funcion" /\ calc_last.pc = "pending"
    /\ calc_last' =
           [calc_last EXCEPT
               !.pc = "done",
               !.out = calcular_precios_farmacia_detallado(
                           calc_last.args.costo_unitario, calc_last.args.impuesto,
                           calc_last.args.escala_compra, calc_last.args.descuento)]
    /\ UNCHANGED <<colecciones, uuids, resp, calc_prev, tareas>>

\* a request to the calculator endpoint
LlamarEndpoint ==
    /\ calc_last.op = "endpoint" /\ calc_last.pc = "pending"
    /\ calc_last' =
           [calc_last EXCEPT
               !.pc = "done",
               !.out = calcular_precios_detallado(
                           calc_last.token,
                           calc_last.args.costo_unitario, calc_last.args.impuesto,
                           calc_last.args.escala_compra, calc_last.args.descuento)]
    /\ UNCHANGED <<colecciones, uuids, resp, calc_prev, tareas>>

\* a second call of the function, with another cost and the other
\* arguments as before
OtraLlamada ==
    /\ calc_last.op = "funcion" /\ calc_last.pc = "done"
    /\ calc_prev = Ninguna
    /\ calc_last.args.escala_compra \in EscalasComunes
    /\ \E c \in Costos :
          /\ c # calc_last.args.costo_unitario
          /\ calc_last' = Pendiente("funcion", TokenValido,
                                    [calc_last.args EXCEPT !.costo_unitario = c])
    /\ calc_prev' = calc_last
    /\ UNCHANGED <<colecciones, uuids, resp, tareas>>

NextCalc == LlamarFuncion \/ LlamarEndpoint \/ OtraLlamada

SpecCalc == InitCalc /\ [][NextCalc]_vars

(***************************************************************************)
(* The service: one action per request handler.  A request is handled to   *)
(* its end before the next one starts.  Documents carry the fields that    *)
(* the modelled handlers read or compute; names, notes and timestamps are  *)
(* left out.                                                               *)
(***************************************************************************)
\* the body of a MedicamentoCreate request: the pricing inputs tried
PreciosMedicamento ==
    {Args(R(100), R(15), <<"1", "0", "+", "3">>, R(10)),
     Args(R(100), R(0), sin_escala, R(100))}

\* the body of the MedicamentoCreate of an update: the pricing inputs tried
PreciosActualizacion ==
    {Args(R(50), R(0), <<"5", "+", "1">>, R(0)),
     Args(R(100), R(0), sin_escala, R(100))}

\* the stock of a MedicamentoCreate and of a stock update
Existencias == {0, 1, 2}

\* the quantity of a sale
Cantidades == {1, 2}

\* the query parameters tried on the calculator endpoint
PreciosCalculadora == {Args(R(100), R(15), <<"1", "0", "+", "3">>, R(10))}

\* dict.get(campo, defecto)
Get(med, campo, defecto) == IF campo \in DOMAIN med THEN med[campo] ELSE defecto

Existe(coleccion, id) == id \in DOMAIN coleccion

Insertar(coleccion, id, doc) == [i \in DOMAIN coleccion \cup {id} |->
                                    IF i = id THEN doc ELSE coleccion[i]]

Registrar(op, token, args, out) ==
    [op |-> op, token |-> token, args |-> args, pc |-> "done", out |-> out]

NoAutorizado == HTTP("401", [detail |-> "Token invalido"])

\* Depends(verify_token) of the handler op: a request with another token
\* is answered 401 by verify_token before the handler's body runs
Rechazada(op) ==
    \E token \in Tokens :
        /\ ~verify_token(token)
        /\ resp' = [token |-> token, op |-> "verify_token", status |-> "401", body |-> NoAutorizado.body]
        /\ UNCHANGED <<colecciones, uuids, calc_prev, calc_last, tareas>>

\* POST /medicamentos/calcular-precios-detallado
CalcularPreciosDetallado ==
    \/ Rechazada("calcular_precios_detallado")
    \/ \E token \in Tokens, a \in PreciosCalculadora :
           /\ verify_token(token)
           /\ calc_prev' = calc_last
           /\ calc_last' = Registrar("endpoint", token, a,
                                     calcular_precios_detallado(token, a.costo_unitario,
                                         a.impuesto, a.escala_compra, a.descuento))
           /\ resp' = [token |-> token, op |-> "calcular_precios_detallado",
                       status |-> calc_last'.out.status, body |-> calc_last'.out.body]
           /\ UNCHANGED <<colecciones, uuids, tareas>>

\* the Medicamento document with precio_base stored as the public price
Medicamento_sin_precio_publico(id, stock, stock_minimo, a, precios) ==
    [id |-> id,
     stock |-> stock,
     stock_minimo |-> stock_minimo,
     costo_unitario |-> a.costo_unitario,
     impuesto |-> a.impuesto,
     escala_compra |-> a.escala_compra,
     descuento_aplicable |-> a.descuento,
     costo_real |-> precios.costo_real,
     precio_base |-> precios.precio_base,
     precio_publico |-> precios.precio_base,
     margen_utilidad |-> precios.margen_utilidad_final,
     ventas_mes |-> 0]

\* the Medicamento document built from a MedicamentoCreate and the prices
Medicamento(id, stock, stock_minimo, a, precios) ==
    [id |-> id,
     stock |-> stock,
     stock_minimo |-> stock_minimo,
     costo_unitario |-> a.costo_unitario,
     impuesto |-> a.impuesto,
     escala_compra |-> a.escala_compra,
     descuento_aplicable |-> a.descuento,
     costo_real |-> precios.costo_real,
     precio_base |-> precios.precio_base,
     precio_publico |-> precios.precio_publico,
     margen_utilidad |-> precios.margen_utilidad_final,
     ventas_mes |-> 0]

\* what crear_medicamento does once the prices are computed
GuardarMedicamento(token, stock, stock_minimo, a, precios) ==
    IF precios.estado = "raise"
    THEN /\ resp' = [token |-> token, op |-> "crear_medicamento", status |-> "500",
                     body |-> [detail |-> precios.exc]]
         /\ UNCHANGED <<medicamentos, uuids>>
    ELSE /\ uuids' = uuids + 1
         /\ medicamentos' = Insertar(medicamentos, uuids + 1,
                                Medicamento(uuids + 1, stock, stock_minimo, a, precios.ret))
         /\ resp' = [token |-> token, op |-> "crear_medicamento", status |-> "200",
                     body |-> Medicamento(uuids + 1, stock, stock_minimo, a, precios.ret)]

\* POST /medicamentos
crear_medicamento ==
    \/ Rechazada("crear_medicamento")
    \/ \E token \in Tokens, stock \in Existencias, stock_minimo \in {1},
          a \in PreciosMedicamento :
           /\ verify_token(token)
           /\ uuids < MaxUuids
           /\ GuardarMedicamento(token, stock, stock_minimo, a,
                  calcular_precios_farmacia_detallado(a.costo_unitario,
                      a.impuesto, a.escala_compra, a.descuento))
           /\ UNCHANGED <<ventas, alertas_farmacia, pacientes, citas, calc_prev, calc_last, tareas>>

\* what actualizar_medicamento does once the prices are computed: $set of
\* every field of a new Medicamento with the same id
ReemplazarMedicamento(token, id, stock, stock_minimo, a, precios) ==
    IF precios.estado = "raise"
    THEN /\ resp' = [token |-> token, op |-> "actualizar_medicamento", medicamento_id |-> id, status |-> "500",
                     body |-> [detail |-> precios.exc]]
         /\ UNCHANGED medicamentos
    ELSE /\ medicamentos' = [medicamentos EXCEPT
                                ![id] = Medicamento(id, stock, stock_minimo, a, precios.ret)]
         /\ resp' = [token |-> token, op |-> "actualizar_medicamento", medicamento_id |-> id, status |-> "200",
                     body |-> Medicamento(id, stock, stock_minimo, a, precios.ret)]

\* PUT /medicamentos/{medicamento_id}
actualizar_medicamento ==
    \/ Rechazada("actualizar_medicamento")
    \/ \E token \in Tokens, id \in 1..MaxUuids, stock \in Existencias, stock_minimo \in {1},
          a \in PreciosActualizacion :
           /\ verify_token(token)
           /\ IF ~Existe(medicamentos, id)
              THEN /\ resp' = [token |-> token, op |-> "actualizar_medicamento", medicamento_id |-> id, status |-> "404",
                               body |-> [detail |-> "Medicamento no encontrado"]]
                   /\ UNCHANGED medicamentos
              ELSE ReemplazarMedicamento(token, id, stock, stock_minimo, a,
                       calcular_precios_farmacia_detallado(a.costo_unitario,
                           a.impuesto, a.escala_compra, a.descuento))
           /\ UNCHANGED <<ventas, alertas_farmacia, pacientes, citas, uuids,
                          calc_prev, calc_last, tareas>>

\* PUT /medicamentos/{medicamento_id}/stock
actualizar_stock ==
    \/ Rechazada("actualizar_stock")
    \/ \E token \in Tokens, id \in 1..MaxUuids, nuevo_stock \in Existencias :
           /\ verify_token(token)
           /\ IF ~Existe(medicamentos, id)
              THEN /\ resp' = [token |-> token, op |-> "actualizar_stock", status |-> "404",
                               body |-> [detail |-> "Medicamento no encontrado"]]
                   /\ UNCHANGED medicamentos
              ELSE /\ medicamentos' = [medicamentos EXCEPT ![id].stock = nuevo_stock]
                   /\ resp' = [token |-> token, op |-> "actualizar_stock", status |-> "200",
                               body |-> [mensaje |-> "Stock actualizado exitosamente"]]
           /\ UNCHANGED <<ventas, alertas_farmacia, pacientes, citas, uuids,
                          calc_prev, calc_last, tareas>>

\* the Venta document of a quick sale and its single VentaItem
VentaRapida(id, med, precio_venta, descuento_aplicado, cantidad) ==
    [id |-> id,
     items |-> <<[medicamento_id |-> med.id,
                  cantidad |-> cantidad,
                  precio_unitario |-> precio_venta,
                  costo_unitario |-> med.costo_real,
                  descuento_aplicado |-> descuento_aplicado,
                  subtotal |-> RMul(precio_venta, R(cantidad)),
                  costo_total |-> RMul(med.costo_real, R(cantidad))]>>,
     subtotal |-> RMul(precio_venta, R(cantidad)),
     descuento_total |-> descuento_aplicado,
     total_venta |-> RSub(RMul(precio_venta, R(cantidad)),
                          RMul(RMul(precio_venta, R(cantidad)),
                               RDiv(descuento_aplicado, Cien))),
     total_costo |-> RMul(med.costo_real, R(cantidad)),
     utilidad_bruta |-> RSub(RSub(RMul(precio_venta, R(cantidad)),
                                  RMul(RMul(precio_venta, R(cantidad)),
                                       RDiv(descuento_aplicado, Cien))),
                             RMul(med.costo_real, R(cantidad)))]

StockAgotado(med) ==
    [tipo |-> "STOCK_AGOTADO", medicamento_id |-> med.id, prioridad |-> "alta",
     leida |-> FALSE]

\* the sale that records the alert when the stock is low, not when it is 0
RegistrarVentaRapida_alerta_stock_bajo(token, med, venta) ==
    /\ uuids' = uuids + 1
    /\ ventas' = Append(ventas, venta)
    /\ medicamentos' = [medicamentos EXCEPT
                           ![med.id].stock = @ - venta.items[1].cantidad,
                           ![med.id].ventas_mes = @ + venta.items[1].cantidad]
    /\ alertas_farmacia' =
           IF med.stock - venta.items[1].cantidad <= med.stock_minimo
           THEN Append(alertas_farmacia, StockAgotado(med))
           ELSE alertas_farmacia
    /\ resp' = [token |-> token, op |-> "crear_venta_rapida",
                medicamento_id |-> med.id, cantidad |-> venta.items[1].cantidad, status |-> "200",
                body |-> [success |-> TRUE,
                          venta_id |-> venta.id,
                          total |-> venta.total_venta,
                          utilidad |-> venta.utilidad_bruta,
                          stock_restante |-> med.stock - venta.items[1].cantidad]]

\* the part of crear_venta_rapida after the stock check: the sale is
\* stored, the stock decremented, and an alert stored when the stock read
\* at the start minus the quantity is 0
RegistrarVentaRapida(token, med, venta) ==
    /\ uuids' = uuids + 1
    /\ ventas' = Append(ventas, venta)
    /\ medicamentos' = [medicamentos EXCEPT
                           ![med.id].stock = @ - venta.items[1].cantidad,
                           ![med.id].ventas_mes = @ + venta.items[1].cantidad]
    /\ alertas_farmacia' =
           IF med.stock - venta.items[1].cantidad = 0
           THEN Append(alertas_farmacia, StockAgotado(med))
           ELSE alertas_farmacia
    /\ resp' = [token |-> token, op |-> "crear_venta_rapida",
                medicamento_id |-> med.id, cantidad |-> venta.items[1].cantidad, status |-> "200",
                body |-> [success |-> TRUE,
                          venta_id |-> venta.id,
                          total |-> venta.total_venta,
                          utilidad |-> venta.utilidad_bruta,
                          stock_restante |-> med.stock - venta.items[1].cantidad]]

\* POST /ventas/venta-rapida
crear_venta_rapida ==
    \/ Rechazada("crear_venta_rapida")
    \/ \E token \in Tokens, id \in 1..MaxUuids, precio_venta \in {R(1), R(150)},
          descuento_aplicado \in {R(10)}, cantidad \in Cantidades :
           /\ verify_token(token)
           /\ uuids < MaxUuids
           /\ IF ~Existe(medicamentos, id)
              THEN /\ resp' = [token |-> token, op |-> "crear_venta_rapida",
                               medicamento_id |-> id, cantidad |-> cantidad, status |-> "404",
                               body |-> [detail |-> "Medicamento no encontrado"]]
                   /\ UNCHANGED <<medicamentos, ventas, alertas_farmacia, uuids>>
              ELSE IF medicamentos[id].stock < cantidad
              THEN /\ resp' = [token |-> token, op |-> "crear_venta_rapida",
                               medicamento_id |-> id, cantidad |-> cantidad, status |-> "400",
                               body |-> [detail |-> "Stock insuficiente"]]
                   /\ UNCHANGED <<medicamentos, ventas, alertas_farmacia, uuids>>
              ELSE RegistrarVentaRapida(token, medicamentos[id],
                       VentaRapida(uuids + 1, medicamentos[id], precio_venta,
                                   descuento_aplicado, cantidad))
           /\ UNCHANGED <<pacientes, citas, calc_prev, calc_last, tareas>>

\* update_one({"id": med_id}, {"$inc": {"stock": -cantidad, "ventas_mes": cantidad}})
Incrementar(coleccion, med_id, cantidad) ==
    IF Existe(coleccion, med_id)
    THEN [coleccion EXCEPT ![med_id].stock = @ - cantidad, ![med_id].ventas_mes = @ + cantidad]
    ELSE coleccion

\* the VentaItem crear_venta builds for one item of the request
VentaItem(medicamento, item_data) ==
    [medicamento_id |-> item_data.medicamento_id,
     cantidad |-> item_data.cantidad,
     precio_unitario |-> medicamento.precio_publico,
     costo_unitario |-> medicamento.costo_real,
     descuento_aplicado |-> item_data.descuento_aplicado,
     subtotal |-> RMul(RMul(medicamento.precio_publico,
                            RSub(Uno, RDiv(item_data.descuento_aplicado, Cien))),
                       R(item_data.cantidad)),
     costo_total |-> RMul(medicamento.costo_real, R(item_data.cantidad))]

\* the loop of crear_venta from item i on, over the medications read before
\* the loop: how it ends, and the items whose stock update was made
RECURSIVE ItemsDeVenta(_, _, _)
ItemsDeVenta(items, medicamentos_map, i) ==
    IF i > Len(items) THEN [estado |-> "return", items_venta |-> <<>>]
    ELSE IF ~Existe(medicamentos_map, items[i].medicamento_id)
    THEN [estado |-> "raise", status |-> "404", detail |-> "Medicamento no encontrado",
          items_venta |-> <<>>]
    ELSE IF medicamentos_map[items[i].medicamento_id].stock < items[i].cantidad
    THEN [estado |-> "raise", status |-> "400", detail |-> "Stock insuficiente",
          items_venta |-> <<>>]
    ELSE [ItemsDeVenta(items, medicamentos_map, i + 1) EXCEPT
              !.items_venta = <<VentaItem(medicamentos_map[items[i].medicamento_id],
                                          items[i])>> \o @]

\* the stock updates of the loop, one update_one for each item it passed
RECURSIVE ActualizarStock(_, _)
ActualizarStock(coleccion, items_venta) ==
    IF items_venta = <<>> THEN coleccion
    ELSE ActualizarStock(Incrementar(coleccion, Head(items_venta).medicamento_id,
                                     Head(items_venta).cantidad),
                         Tail(items_venta))

\* subtotal += subtotal_item, total_costo += costo_total_item
RECURSIVE Sumar(_, _)
Sumar(items_venta, campo) ==
    IF items_venta = <<>> THEN Cero
    ELSE RAdd(Head(items_venta)[campo], Sumar(Tail(items_venta), campo))

\* the Venta document of crear_venta
Venta(id, items_venta, descuento_total) ==
    [id |-> id,
     items |-> items_venta,
     subtotal |-> Sumar(items_venta, "subtotal"),
     descuento_total |-> descuento_total,
     total_venta |-> RMul(Sumar(items_venta, "subtotal"),
                          RSub(Uno, RDiv(descuento_total, Cien))),
     total_costo |-> Sumar(items_venta, "costo_total"),
     utilidad_bruta |-> RSub(RMul(Sumar(items_venta, "subtotal"),
                                  RSub(Uno, RDiv(descuento_total, Cien))),
                             Sumar(items_venta, "costo_total"))]

\* the sale that is recorded before the stock is checked
RegistrarVenta_sin_verificar(token, items, descuento_total, bucle) ==
    /\ medicamentos' = ActualizarStock(medicamentos, bucle.items_venta)
    /\ uuids' = uuids + 1
    /\ ventas' = Append(ventas, Venta(uuids + 1, bucle.items_venta, descuento_total))
    /\ resp' = [token |-> token, op |-> "crear_venta", items |-> items, status |-> "200",
                body |-> Venta(uuids + 1, bucle.items_venta, descuento_total)]

\* what crear_venta does with the outcome of its loop: the stock updates
\* the loop made stay, and the sale is stored when the loop ended
RegistrarVenta(token, items, descuento_total, bucle) ==
    /\ medicamentos' = ActualizarStock(medicamentos, bucle.items_venta)
    /\ IF bucle.estado = "raise"
       THEN /\ resp' = [token |-> token, op |-> "crear_venta", items |-> items,
                        status |-> bucle.status, body |-> [detail |-> bucle.detail]]
            /\ UNCHANGED <<ventas, uuids>>
       ELSE /\ uuids' = uuids + 1
            /\ ventas' = Append(ventas, Venta(uuids + 1, bucle.items_venta, descuento_total))
            /\ resp' = [token |-> token, op |-> "crear_venta", items |-> items,
                        status |-> "200",
                        body |-> Venta(uuids + 1, bucle.items_venta, descuento_total)]

\* an item of a VentaCreate: medication, quantity and discount (%)
Item(medicamento_id, cantidad, descuento_aplicado) ==
    [medicamento_id |-> medicamento_id, cantidad |-> cantidad,
     descuento_aplicado |-> R(descuento_aplicado)]

\* the lists of items tried: none, one item, the same medication twice, and
\* two medications
ListasDeItems ==
    {<<>>,
     <<Item(1, 1, 0)>>, <<Item(1, 1, 50)>>, <<Item(1, 2, 0)>>, <<Item(2, 1, 0)>>,
     <<Item(1, 1, 0), Item(1, 1, 0)>>, <<Item(1, 1, 0), Item(1, 2, 0)>>,
     <<Item(1, 1, 0), Item(2, 1, 0)>>, <<Item(2, 1, 0), Item(1, 1, 0)>>}

\* POST /ventas; paciente_id is None in the sales tried
crear_venta ==
    \/ Rechazada("crear_venta")
    \/ \E token \in Tokens, items \in ListasDeItems, descuento_total \in {R(0), R(50)} :
           /\ verify_token(token)
           /\ items # <<>> /\ ItemsDeVenta(items, medicamentos, 1).estado = "return" => uuids < MaxUuids
           /\ IF items = <<>>
              THEN /\ resp' = [token |-> token, op |-> "crear_venta", items |-> items,
                               status |-> "400",
                               body |-> [detail |-> "La venta debe incluir al menos un producto"]]
                   /\ UNCHANGED <<medicamentos, ventas, uuids>>
              ELSE RegistrarVenta(token, items, descuento_total,
                                  ItemsDeVenta(items, medicamentos, 1))
           /\ UNCHANGED <<alertas_farmacia, pacientes, citas, calc_prev, calc_last, tareas>>

\* the largest stock a restock is let to reach
MaxStock == 3

\* the body of a RestockDetection: the pricing inputs tried; the discount
\* of the record is not used, descuento is existing.get("descuento_maximo", 0)
PreciosRestock ==
    {Args(R(50), R(0), <<"5", "+", "1">>, R(0)),
     Args(R(100), R(0), <<"0", "+", "5">>, R(0))}

\* delete_many: the alerts that stay
SinAlertas(alertas, medicamento_id, tipo) ==
    SelectSeq(alertas, LAMBDA al : ~(al.medicamento_id = medicamento_id /\ al.tipo = tipo))

\* what aplicar_restock does once the prices are computed: $set of the
\* restock fields, then delete_many of the STOCK_AGOTADO alerts
AplicarRestock(token, existing, stock_inicial, a, precios) ==
    IF precios.estado = "raise"
    THEN /\ resp' = [token |-> token, op |-> "aplicar_restock",
                     medicamento_id |-> existing.id, stock_inicial |-> stock_inicial,
                     status |-> "500", body |-> [detail |-> precios.exc]]
         /\ UNCHANGED <<medicamentos, alertas_farmacia>>
    ELSE /\ medicamentos' = [medicamentos EXCEPT
                                ![existing.id].stock = existing.stock + stock_inicial,
                                ![existing.id].costo_unitario = a.costo_unitario,
                                ![existing.id].impuesto = a.impuesto,
                                ![existing.id].escala_compra = a.escala_compra,
                                ![existing.id].costo_real = precios.ret.costo_real,
                                ![existing.id].precio_base = precios.ret.precio_base,
                                ![existing.id].precio_publico = precios.ret.precio_publico,
                                ![existing.id].margen_utilidad =
                                    precios.ret.margen_utilidad_final]
         /\ alertas_farmacia' = SinAlertas(alertas_farmacia, existing.id, "STOCK_AGOTADO")
         /\ resp' = [token |-> token, op |-> "aplicar_restock",
                     medicamento_id |-> existing.id, stock_inicial |-> stock_inicial,
                     status |-> "200",
                     body |-> [success |-> TRUE,
                               nuevo_stock |-> existing.stock + stock_inicial,
                               nuevos_precios |-> precios.ret]]

\* PUT /medicamentos/{medicamento_id}/restock
aplicar_restock ==
    \/ Rechazada("aplicar_restock")
    \/ \E token \in Tokens, id \in 1..MaxUuids, stock_inicial \in Cantidades,
          a \in PreciosRestock :
           /\ verify_token(token)
           /\ Existe(medicamentos, id) => medicamentos[id].stock + stock_inicial <= MaxStock
           /\ IF ~Existe(medicamentos, id)
              THEN /\ resp' = [token |-> token, op |-> "aplicar_restock",
                               medicamento_id |-> id, stock_inicial |-> stock_inicial,
                               status |-> "404",
                               body |-> [detail |-> "Medicamento no encontrado"]]
                   /\ UNCHANGED <<medicamentos, alertas_farmacia>>
              ELSE AplicarRestock(token, medicamentos[id], stock_inicial, a,
                       calcular_precios_farmacia_detallado(a.costo_unitario, a.impuesto,
                           a.escala_compra, Get(medicamentos[id], "descuento_maximo", R(0))))
           /\ UNCHANGED <<ventas, pacientes, citas, uuids, calc_prev, calc_last, tareas>>

\* POST /pacientes
crear_paciente ==
    \/ Rechazada("crear_paciente")
    \/ \E token \in Tokens, nombre_completo \in {"Ana"} :
           /\ verify_token(token)
           /\ uuids < MaxUuids
           /\ uuids' = uuids + 1
           /\ pacientes' = Insertar(pacientes, uuids + 1,
                               [id |-> uuids + 1, nombre_completo |-> nombre_completo])
           /\ resp' = [token |-> token, op |-> "crear_paciente", status |-> "200",
                       body |-> [id |-> uuids + 1, nombre_completo |-> nombre_completo]]
           /\ UNCHANGED <<medicamentos, ventas, alertas_farmacia, citas,
                          calc_prev, calc_last, tareas>>

Eliminar(coleccion, id) == [i \in DOMAIN coleccion \ {id} |-> coleccion[i]]

\* DELETE /pacientes/{paciente_id}
eliminar_paciente ==
    \/ Rechazada("eliminar_paciente")
    \/ \E token \in Tokens, paciente_id \in 1..MaxUuids :
           /\ verify_token(token)
           /\ IF ~Existe(pacientes, paciente_id)
              THEN /\ resp' = [token |-> token, op |-> "eliminar_paciente", status |-> "404",
                               body |-> [detail |-> "Paciente no encontrado"]]
                   /\ UNCHANGED pacientes
              ELSE /\ pacientes' = Eliminar(pacientes, paciente_id)
                   /\ resp' = [token |-> token, op |-> "eliminar_paciente", status |-> "200",
                               body |-> [mensaje |-> "Paciente eliminado exitosamente"]]
           /\ UNCHANGED <<medicamentos, ventas, alertas_farmacia, citas, uuids,
                          calc_prev, calc_last, tareas>>

CitaMedica(id, paciente) ==
    [id |-> id, paciente_id |-> paciente.id, paciente_nombre |-> paciente.nombre_completo,
     estado |-> "pendiente"]

\* POST /citas
crear_cita ==
    \/ Rechazada("crear_cita")
    \/ \E token \in Tokens, paciente_id \in 1..MaxUuids :
           /\ verify_token(token)
           /\ uuids < MaxUuids
           /\ IF ~Existe(pacientes, paciente_id)
              THEN /\ resp' = [token |-> token, op |-> "crear_cita", status |-> "404",
                               body |-> [detail |-> "Paciente no encontrado"]]
                   /\ UNCHANGED <<citas, uuids>>
              ELSE /\ uuids' = uuids + 1
                   /\ citas' = Append(citas, CitaMedica(uuids + 1, pacientes[paciente_id]))
                   /\ resp' = [token |-> token, op |-> "crear_cita", status |-> "200",
                               body |-> CitaMedica(uuids + 1, pacientes[paciente_id])]
           /\ UNCHANGED <<medicamentos, ventas, alertas_farmacia, pacientes,
                          calc_prev, calc_last, tareas>>

\* the most appointments stored
MaxCitas == 2

\* POST /pacientes/{paciente_id}/cita-rapida: the appointment is made for
\* the patient of the path, dias_adelante days from today at 9:00; the
\* paciente_id of the body is not read
crear_cita_rapida ==
    \/ Rechazada("crear_cita_rapida")
    \/ \E token \in Tokens, paciente_id \in 1..MaxUuids, dias_adelante \in {7, 30} :
           /\ verify_token(token)
           /\ Len(citas) < MaxCitas
           /\ IF ~Existe(pacientes, paciente_id)
              THEN /\ resp' = [token |-> token, op |-> "crear_cita_rapida", status |-> "404",
                               body |-> [detail |-> "Paciente no encontrado"]]
                   /\ UNCHANGED <<citas, uuids>>
              ELSE /\ uuids' = uuids + 1
                   /\ citas' = Append(citas, [fecha_hora |-> dias_adelante] @@
                                              CitaMedica(uuids + 1, pacientes[paciente_id]))
                   /\ resp' = [token |-> token, op |-> "crear_cita_rapida", status |-> "200",
                               body |-> [mensaje |-> "Cita rapida creada",
                                         fecha_hora |-> dias_adelante,
                                         cita_id |-> uuids + 1]]
           /\ UNCHANGED <<medicamentos, ventas, alertas_farmacia, pacientes,
                          calc_prev, calc_last, tareas>>

\* the access codes tried on POST /login
Codigos == {"1970", "0000"}

\* POST /login: the one handler without Depends(verify_token)
login ==
    \E codigo \in Codigos :
        /\ resp' = IF codigo = "1970"
                   THEN [op |-> "login", codigo |-> codigo, status |-> "200",
                         body |-> [success |-> TRUE, token |-> TokenValido,
                                   role |-> "doctor"]]
                   ELSE [op |-> "login", codigo |-> codigo, status |-> "401",
                         body |-> [detail |-> "Codigo de acceso incorrecto"]]
        /\ UNCHANGED <<colecciones, uuids, calc_prev, calc_last, tareas>>

Init ==
    /\ InitColecciones
    /\ calc_prev = Ninguna
    /\ calc_last = Ninguna

Next ==
    \/ login
    \/ CalcularPreciosDetallado
    \/ crear_medicamento
    \/ actualizar_medicamento
    \/ actualizar_stock
    \/ crear_venta_rapida
    \/ crear_paciente
    \/ eliminar_paciente
    \/ crear_cita

Spec == Init /\ [][Next]_vars

\* the pharmacy alone: medications, stock, quick sales and restocks
NextFarmacia ==
    \/ crear_medicamento
    \/ actualizar_stock
    \/ crear_venta_rapida
    \/ aplicar_restock

SpecFarmacia == Init /\ [][NextFarmacia]_vars

\* the sales: medications are created and sold, one request after another
NextVentas ==
    \/ crear_medicamento
    \/ crear_venta
    \/ crear_venta_rapida

SpecVentas == Init /\ [][NextVentas]_vars

\* the prices: medications are created, updated and restocked
NextPrecios ==
    \/ crear_medicamento
    \/ actualizar_medicamento
    \/ aplicar_restock

\* patients and their appointments
NextCitas ==
    \/ crear_paciente
    \/ crear_cita
    \/ crear_cita_rapida
    \/ eliminar_paciente

SpecCitas == Init /\ [][NextCitas]_vars

SpecPrecios == Init /\ [][NextPrecios]_vars

\* the pricing inputs of the MedicamentoCreate bodies stored one by one:
\* costs of whole cents, from 0.01 on, and of 100
PreciosAlta ==
    {Args(c, i, e, d) : c \in {Rat(n, 100) : n \in 1..MaxCentavos} \cup {R(100)},
                        i \in {R(0), R(15), R(100)},
                        e \in {sin_escala, <<"1", "0", "+", "3">>, <<"5", "+", "1">>},
                        d \in {R(0), R(10), R(50)}}

\* a POST /medicamentos is about to be made on the empty collection
InitAlta ==
    /\ medicamentos = <<>> /\ ventas = <<>> /\ alertas_farmacia = <<>>
    /\ pacientes = <<>> /\ citas = <<>> /\ uuids = 0
    /\ calc_prev = Ninguna /\ calc_last = Ninguna /\ tareas = <<>>
    /\ resp \in {[op |-> "MedicamentoCreate", token |-> token, stock |-> 1, stock_minimo |-> 1, a |-> a] : token \in Tokens, a \in PreciosAlta}

\* POST /medicamentos with the body drawn at the start
CrearMedicamentoPendiente ==
    /\ resp.op = "MedicamentoCreate"
    /\ IF ~verify_token(resp.token)
       THEN /\ resp' = [token |-> resp.token, op |-> "verify_token", status |-> "401",
                        body |-> NoAutorizado.body]
            /\ UNCHANGED <<medicamentos, uuids>>
       ELSE GuardarMedicamento(resp.token, resp.stock, resp.stock_minimo, resp.a,
                calcular_precios_farmacia_detallado(resp.a.costo_unitario, resp.a.impuesto,
                    resp.a.escala_compra, resp.a.descuento))
    /\ UNCHANGED <<ventas, alertas_farmacia, pacientes, citas, calc_prev, calc_last, tareas>>

NextAlta == CrearMedicamentoPendiente

SpecAlta == InitAlta /\ [][NextAlta]_vars

(***************************************************************************)
(* generar_alertas_farmacia.  A date is the number of its day; the stored  *)
(* fecha_vencimiento is a string, [iso |-> TRUE, dia |-> d] when it is the *)
(* ISO form of day d and [iso |-> FALSE] when fromisoformat rejects it; a  *)
(* document without the field has fecha_vencimiento None.                  *)
(***************************************************************************)
\* the longest list of medications tried on generar_alertas_farmacia
MaxLote == 2

\* the alert of low stock of one medication, if any
AlertaStock(med) ==
    IF Get(med, "stock", 0) <= Get(med, "stock_minimo", 5)
    THEN <<[tipo |-> "stock_bajo", medicamento_id |-> med.id,
            prioridad |-> IF Get(med, "stock", 0) = 0 THEN "alta" ELSE "media"]>>
    ELSE <<>>

\* the priority with the limit of 'alta' at 7 days
PrioridadVencimiento_7(dias_hasta_vencimiento) ==
    IF dias_hasta_vencimiento <= 7 THEN "alta" ELSE "media"

\* the three branches on dias_hasta_vencimiento: <= 7 and <= 14 give
\* 'alta', the rest 'media'
PrioridadVencimiento(dias_hasta_vencimiento) ==
    IF dias_hasta_vencimiento <= 7 THEN "alta"
    ELSE IF dias_hasta_vencimiento <= 14 THEN "alta"
    ELSE "media"

\* the alert of near expiry of one medication, if any; the ValueError of
\* fromisoformat is caught and leaves no alert
AlertaVencimiento(med, hoy) ==
    IF "fecha_vencimiento" \notin DOMAIN med THEN <<>>
    ELSE IF ~med.fecha_vencimiento.iso THEN <<>>
    ELSE IF 0 <= med.fecha_vencimiento.dia - hoy /\ med.fecha_vencimiento.dia - hoy <= 28
    THEN <<[tipo |-> "vencimiento_cercano", medicamento_id |-> med.id,
            prioridad |-> PrioridadVencimiento(med.fecha_vencimiento.dia - hoy),
            dias_restantes |-> med.fecha_vencimiento.dia - hoy]>>
    ELSE <<>>

RECURSIVE generar_alertas_farmacia(_, _)
\* the loop over the medications, in the order of the list
generar_alertas_farmacia(lista, hoy) ==
    IF lista = <<>> THEN <<>>
    ELSE AlertaStock(Head(lista)) \o AlertaVencimiento(Head(lista), hoy)
             \o generar_alertas_farmacia(Tail(lista), hoy)

\* the stocks, days of expiry and days of the call tried
Vencimientos ==
    {[iso |-> TRUE, dia |-> d] : d \in {9, 10, 17, 18, 24, 25, 38, 39}} \cup {[iso |-> FALSE]}

Hoy == {10, 11}

MedicamentosDeLote(id) ==
    {[id |-> id, stock |-> s, stock_minimo |-> 1] : s \in Existencias}
    \cup {[id |-> id, stock |-> s, stock_minimo |-> 1, fecha_vencimiento |-> f] :
              s \in {0, 2}, f \in Vencimientos}

Lotes ==
    UNION {{l \in [1..n -> UNION {MedicamentosDeLote(i) : i \in 1..n}] :
                \A i \in 1..n : l[i].id = i} : n \in 0..MaxLote}

\* the most medications of a stocked pharmacy tried on the alerts endpoint
MaxAlmacen == 21

\* pharmacies whose medications are all out of stock
Almacenes ==
    {[i \in 1..n |-> [id |-> i, stock |-> 0, stock_minimo |-> 1]] :
         n \in (MaxLote + 1)..MaxAlmacen}

\* find().to_list(1000): at most 1000 documents are fetched
LimiteListado == 1000

\* alertas[:20]: at most 20 alerts are returned
LimiteAlertas == 20

RECURSIVE PorId(_, _)
\* the documents of the ids, in the order of insertion (ascending id)
PorId(coleccion, ids) ==
    IF ids = {} THEN <<>>
    ELSE LET primero == CHOOSE i \in ids : \A j \in ids : i <= j
         IN  <<coleccion[primero]>> \o PorId(coleccion, ids \ {primero})

Primeros(lista, limite) == SubSeq(lista, 1, IF Len(lista) < limite THEN Len(lista) ELSE limite)

Listado(coleccion, limite) == Primeros(PorId(coleccion, DOMAIN coleccion), limite)

DeTipo(alertas, tipo) == {k \in 1..Len(alertas) : alertas[k].tipo = tipo}

\* the body of the response of the alerts endpoint
RespuestaAlertas(alertas) ==
    [total_alertas |-> Len(alertas),
     alertas_por_tipo |->
         [stock_bajo |-> Cardinality(DeTipo(alertas, "stock_bajo")),
          vencimiento_cercano |-> Cardinality(DeTipo(alertas, "vencimiento_cercano"))],
     alertas |-> Primeros(alertas, LimiteAlertas)]

\* GET /medicamentos/alertas
get_alertas_farmacia ==
    \/ Rechazada("get_alertas_farmacia")
    \/ \E token \in Tokens, hoy \in Hoy :
           /\ verify_token(token)
           /\ resp' = [token |-> token, op |-> "get_alertas_farmacia", status |-> "200",
                       body |-> RespuestaAlertas(
                                    generar_alertas_farmacia(
                                        Listado(medicamentos, LimiteListado), hoy))]
           /\ UNCHANGED <<colecciones, uuids, calc_prev, calc_last, tareas>>

\* a call of generar_alertas_farmacia is about to be made on a list
InitAlertas ==
    /\ medicamentos \in Lotes \cup Almacenes
    /\ ventas = <<>> /\ alertas_farmacia = <<>> /\ pacientes = <<>> /\ citas = <<>>
    /\ uuids = Len(medicamentos)
    /\ resp \in {[op |-> "generar_alertas_farmacia", pc |-> "pending", hoy |-> h] : h \in Hoy}
    /\ calc_prev = Ninguna /\ calc_last = Ninguna /\ tareas = <<>>

GenerarAlertas ==
    /\ resp.op = "generar_alertas_farmacia" /\ resp.pc = "pending"
    /\ resp' = [op |-> "generar_alertas_farmacia", pc |-> "done", hoy |-> resp.hoy,
                alertas |-> generar_alertas_farmacia(medicamentos, resp.hoy)]
    /\ UNCHANGED <<colecciones, uuids, calc_prev, calc_last, tareas>>

NextAlertas == GenerarAlertas \/ get_alertas_farmacia

SpecAlertas == InitAlertas /\ [][NextAlertas]_vars

(***************************************************************************)
(* calcular_imc_y_estado_nutricional                                       *)
(***************************************************************************)
\* the chain of comparisons on imc = peso / altura ** 2; the division
\* raises ZeroDivisionError when altura is 0
calcular_imc_y_estado_nutricional(peso, altura) ==
    IF RIsZero(altura) THEN ZeroDivisionError
    ELSE LET imc == RDiv(peso, RMul(altura, altura))
         IN  [estado |-> "return",
              imc |-> imc,
              ret |-> <<round2(imc),
                        IF RLt(imc, R(16)) THEN "desnutrido"
                        ELSE IF RLe(R(16), imc) /\ RLe(imc, Rat(249, 10)) THEN "normal"
                        ELSE IF RLe(R(25), imc) /\ RLe(imc, Rat(299, 10))
                             THEN "obesidad_leve"
                        ELSE IF RLe(R(30), imc) /\ RLe(imc, Rat(349, 10))
                             THEN "obesidad_moderada"
                        ELSE "obesidad_morbida">>]

\* the weights (kg) and heights (m) tried
Pesos ==
    {R(15), Rat(1599, 100), R(16), Rat(249, 10), Rat(2495, 100), R(25), Rat(299, 10),
     Rat(2995, 100), R(30), Rat(349, 10), Rat(3495, 100), R(35), R(40), R(60),
     Rat(721, 10), R(80)}

Alturas == {R(1), Rat(12, 10), Rat(15, 10), Rat(17, 10), R(2), R(0)}

\* a call of calcular_imc_y_estado_nutricional is about to be made
InitIMC ==
    /\ medicamentos = <<>> /\ ventas = <<>> /\ alertas_farmacia = <<>>
    /\ pacientes = <<>> /\ citas = <<>> /\ uuids = 0
    /\ calc_prev = Ninguna /\ calc_last = Ninguna /\ tareas = <<>>
    /\ resp \in {[op |-> "calcular_imc_y_estado_nutricional", pc |-> "pending",
                  peso |-> p, altura |-> a] : p \in Pesos, a \in Alturas}

CalcularIMC ==
    /\ resp.op = "calcular_imc_y_estado_nutricional" /\ resp.pc = "pending"
    /\ resp' = [op |-> "calcular_imc_y_estado_nutricional", pc |-> "done",
                peso |-> resp.peso, altura |-> resp.altura,
                out |-> calcular_imc_y_estado_nutricional(resp.peso, resp.altura)]
    /\ UNCHANGED <<colecciones, uuids, calc_prev, calc_last, tareas>>

NextIMC == CalcularIMC

SpecIMC == InitIMC /\ [][NextIMC]_vars

(***************************************************************************)
(* The CIE-10 classifier.  A str is the sequence of its characters, each a *)
(* one-character string; an accented letter is one character, written with *)
(* its accent after it ("a'" for a-acute, "n~" for n-tilde).  None is a    *)
(* value that is no str.                                                   *)
(***************************************************************************)
None == <<"None">>

\* the truth value of a str or None: 'if x', 'not x'
bool(x) == x # None /\ x # <<>>

Mayusculas ==
    <<"A", "B", "C", "D", "E", "F", "G", "H", "I", "J", "K", "L", "M",
      "N", "O", "P", "Q", "R", "S", "T", "U", "V", "W", "X", "Y", "Z",
      "A'", "E'", "I'", "O'", "U'", "N~", "U:">>

Minusculas ==
    <<"a", "b", "c", "d", "e", "f", "g", "h", "i", "j", "k", "l", "m",
      "n", "o", "p", "q", "r", "s", "t", "u", "v", "w", "x", "y", "z",
      "a'", "e'", "i'", "o'", "u'", "n~", "u:">>

lower_char(c) ==
    IF \E i \in DOMAIN Mayusculas : Mayusculas[i] = c
    THEN Minusculas[CHOOSE i \in DOMAIN Mayusculas : Mayusculas[i] = c]
    ELSE c

upper_char(c) ==
    IF \E i \in DOMAIN Minusculas : Minusculas[i] = c
    THEN Mayusculas[CHOOSE i \in DOMAIN Minusculas : Minusculas[i] = c]
    ELSE c

\* s.lower()
lower(s) == [i \in 1..Len(s) |-> lower_char(s[i])]

\* sub in s, of two strs
In(sub, s) == \E i \in 0..(Len(s) - Len(sub)) : SubSeq(s, i + 1, i + Len(sub)) = sub

\* s.split(): the words of s between runs of blanks
split(s) == SelectSeq(Split(s, " "), LAMBDA palabra : palabra # <<>>)

RECURSIVE lstrip(_)
lstrip(s) == IF s # <<>> /\ Head(s) = " " THEN lstrip(Tail(s)) ELSE s

RECURSIVE rstrip(_)
rstrip(s) == IF s # <<>> /\ s[Len(s)] = " " THEN rstrip(SubSeq(s, 1, Len(s) - 1)) ELSE s

\* s.strip()
strip(s) == rstrip(lstrip(s))

\* s.split(c, 1), for a c that occurs in s
SplitUna(s, c) ==
    LET i == CHOOSE k \in 1..Len(s) : s[k] = c /\ \A j \in 1..(k - 1) : s[j] # c
    IN  <<SubSeq(s, 1, i - 1), SubSeq(s, i + 1, Len(s))>>

\* the least of a non-empty set of indices
Primera(S) == CHOOSE i \in S : \A j \in S : i <= j

\* the dict of keywords and codes, in the order of the literal, which is
\* the order in which items() yields them
clasificaciones ==
    << [palabra |-> <<"h", "i", "d", "r", "o", "c", "e", "f", "a", "l", "i", "a">>, codigo |-> <<"G", "9", "1", ".", "9">>],
       [palabra |-> <<"h", "i", "d", "r", "o", "c", "e", "f", "a", "l", "i", "a", "s">>, codigo |-> <<"G", "9", "1", ".", "9">>],
       [palabra |-> <<"h", "i", "d", "r", "o", "c", "e'", "f", "a", "l", "o">>, codigo |-> <<"G", "9", "1", ".", "9">>],
       [palabra |-> <<"m", "e", "n", "i", "n", "g", "i", "t", "i", "s">>, codigo |-> <<"G", "0", "3", ".", "9">>],
       [palabra |-> <<"e", "n", "c", "e", "f", "a", "l", "i", "t", "i", "s">>, codigo |-> <<"G", "0", "4", ".", "9">>],
       [palabra |-> <<"e", "p", "i", "l", "e", "p", "s", "i", "a">>, codigo |-> <<"G", "4", "0", ".", "9">>],
       [palabra |-> <<"c", "o", "n", "v", "u", "l", "s", "i", "o", "n", "e", "s">>, codigo |-> <<"R", "5", "6", ".", "8">>],
       [palabra |-> <<"p", "a", "r", "a'", "l", "i", "s", "i", "s", " ", "c", "e", "r", "e", "b", "r", "a", "l">>, codigo |-> <<"G", "8", "0", ".", "9">>],
       [palabra |-> <<"p", "a", "r", "a", "l", "i", "s", "i", "s", " ", "c", "e", "r", "e", "b", "r", "a", "l">>, codigo |-> <<"G", "8", "0", ".", "9">>],
       [palabra |-> <<"m", "i", "c", "r", "o", "c", "e", "f", "a", "l", "i", "a">>, codigo |-> <<"Q", "0", "2">>],
       [palabra |-> <<"m", "a", "c", "r", "o", "c", "e", "f", "a", "l", "i", "a">>, codigo |-> <<"Q", "7", "5", ".", "3">>],
       [palabra |-> <<"e", "s", "p", "i", "n", "a", " ", "b", "i'", "f", "i", "d", "a">>, codigo |-> <<"Q", "0", "5", ".", "9">>],
       [palabra |-> <<"e", "s", "p", "i", "n", "a", " ", "b", "i", "f", "i", "d", "a">>, codigo |-> <<"Q", "0", "5", ".", "9">>],
       [palabra |-> <<"d", "i", "a", "r", "r", "e", "a">>, codigo |-> <<"A", "0", "9", ".", "9">>],
       [palabra |-> <<"g", "a", "s", "t", "r", "o", "e", "n", "t", "e", "r", "i", "t", "i", "s">>, codigo |-> <<"A", "0", "9", ".", "0">>],
       [palabra |-> <<"r", "o", "t", "a", "v", "i", "r", "u", "s">>, codigo |-> <<"A", "0", "8", ".", "0">>],
       [palabra |-> <<"s", "a", "l", "m", "o", "n", "e", "l", "a">>, codigo |-> <<"A", "0", "2", ".", "9">>],
       [palabra |-> <<"s", "a", "l", "m", "o", "n", "e", "l", "l", "a">>, codigo |-> <<"A", "0", "2", ".", "9">>],
       [palabra |-> <<"s", "h", "i", "g", "e", "l", "l", "a">>, codigo |-> <<"A", "0", "3", ".", "9">>],
       [palabra |-> <<"s", "h", "i", "g", "e", "l", "o", "s", "i", "s">>, codigo |-> <<"A", "0", "3", ".", "9">>],
       [palabra |-> <<"c", "o'", "l", "e", "r", "a">>, codigo |-> <<"A", "0", "0", ".", "9">>],
       [palabra |-> <<"f", "i", "e", "b", "r", "e", " ", "t", "i", "f", "o", "i", "d", "e", "a">>, codigo |-> <<"A", "0", "1", ".", "0">>],
       [palabra |-> <<"h", "e", "p", "a", "t", "i", "t", "i", "s", " ", "a">>, codigo |-> <<"B", "1", "5", ".", "9">>],
       [palabra |-> <<"h", "e", "p", "a", "t", "i", "t", "i", "s", " ", "b">>, codigo |-> <<"B", "1", "6", ".", "9">>],
       [palabra |-> <<"v", "a", "r", "i", "c", "e", "l", "a">>, codigo |-> <<"B", "0", "1", ".", "9">>],
       [palabra |-> <<"s", "a", "r", "a", "m", "p", "i", "o'", "n">>, codigo |-> <<"B", "0", "5", ".", "9">>],
       [palabra |-> <<"r", "u", "b", "e", "o", "l", "a">>, codigo |-> <<"B", "0", "6", ".", "9">>],
       [palabra |-> <<"r", "u", "b", "e'", "o", "l", "a">>, codigo |-> <<"B", "0", "6", ".", "9">>],
       [palabra |-> <<"p", "a", "r", "o", "t", "i", "d", "i", "t", "i", "s">>, codigo |-> <<"B", "2", "6", ".", "9">>],
       [palabra |-> <<"p", "a", "p", "e", "r", "a", "s">>, codigo |-> <<"B", "2", "6", ".", "9">>],
       [palabra |-> <<"m", "o", "n", "o", "n", "u", "c", "l", "e", "o", "s", "i", "s">>, codigo |-> <<"B", "2", "7", ".", "9">>],
       [palabra |-> <<"c", "i", "t", "o", "m", "e", "g", "a", "l", "o", "v", "i", "r", "u", "s">>, codigo |-> <<"B", "2", "5", ".", "9">>],
       [palabra |-> <<"h", "e", "r", "p", "e", "s", " ", "s", "i", "m", "p", "l", "e">>, codigo |-> <<"B", "0", "0", ".", "9">>],
       [palabra |-> <<"h", "e", "r", "p", "e", "s", " ", "z", "o", "s", "t", "e", "r">>, codigo |-> <<"B", "0", "2", ".", "9">>],
       [palabra |-> <<"c", "a", "n", "d", "i", "d", "i", "a", "s", "i", "s">>, codigo |-> <<"B", "3", "7", ".", "9">>],
       [palabra |-> <<"c", "a", "n", "d", "i", "d", "a">>, codigo |-> <<"B", "3", "7", ".", "9">>],
       [palabra |-> <<"r", "e", "s", "f", "r", "i", "a", "d", "o">>, codigo |-> <<"J", "0", "0">>],
       [palabra |-> <<"r", "e", "s", "f", "r", "i", "o">>, codigo |-> <<"J", "0", "0">>],
       [palabra |-> <<"g", "r", "i", "p", "e">>, codigo |-> <<"J", "1", "1", ".", "1">>],
       [palabra |-> <<"i", "n", "f", "l", "u", "e", "n", "z", "a">>, codigo |-> <<"J", "1", "1", ".", "1">>],
       [palabra |-> <<"r", "i", "n", "i", "t", "i", "s">>, codigo |-> <<"J", "0", "0">>],
       [palabra |-> <<"r", "i", "n", "o", "f", "a", "r", "i", "n", "g", "i", "t", "i", "s">>, codigo |-> <<"J", "0", "0">>],
       [palabra |-> <<"s", "i", "n", "u", "s", "i", "t", "i", "s">>, codigo |-> <<"J", "0", "1", ".", "9">>],
       [palabra |-> <<"f", "a", "r", "i", "n", "g", "i", "t", "i", "s">>, codigo |-> <<"J", "0", "2", ".", "9">>],
       [palabra |-> <<"d", "o", "l", "o", "r", " ", "d", "e", " ", "g", "a", "r", "g", "a", "n", "t", "a">>, codigo |-> <<"J", "0", "2", ".", "9">>],
       [palabra |-> <<"a", "m", "i", "g", "d", "a", "l", "i", "t", "i", "s">>, codigo |-> <<"J", "0", "3", ".", "9">>],
       [palabra |-> <<"a", "n", "g", "i", "n", "a", "s">>, codigo |-> <<"J", "0", "3", ".", "9">>],
       [palabra |-> <<"l", "a", "r", "i", "n", "g", "i", "t", "i", "s">>, codigo |-> <<"J", "0", "4", ".", "0">>],
       [palabra |-> <<"t", "r", "a", "q", "u", "e", "i", "t", "i", "s">>, codigo |-> <<"J", "0", "4", ".", "1">>],
       [palabra |-> <<"c", "r", "u", "p">>, codigo |-> <<"J", "0", "5", ".", "0">>],
       [palabra |-> <<"e", "p", "i", "g", "l", "o", "t", "i", "t", "i", "s">>, codigo |-> <<"J", "0", "5", ".", "1">>],
       [palabra |-> <<"b", "r", "o", "n", "q", "u", "i", "t", "i", "s">>, codigo |-> <<"J", "2", "0", ".", "9">>],
       [palabra |-> <<"b", "r", "o", "n", "q", "u", "i", "o", "l", "i", "t", "i", "s">>, codigo |-> <<"J", "2", "1", ".", "9">>],
       [palabra |-> <<"n", "e", "u", "m", "o", "n", "i'", "a">>, codigo |-> <<"J", "1", "8", ".", "9">>],
       [palabra |-> <<"n", "e", "u", "m", "o", "n", "i", "a">>, codigo |-> <<"J", "1", "8", ".", "9">>],
       [palabra |-> <<"p", "u", "l", "m", "o", "n", "i'", "a">>, codigo |-> <<"J", "1", "8", ".", "9">>],
       [palabra |-> <<"p", "u", "l", "m", "o", "n", "i", "a">>, codigo |-> <<"J", "1", "8", ".", "9">>],
       [palabra |-> <<"a", "s", "m", "a">>, codigo |-> <<"J", "4", "5", ".", "9">>],
       [palabra |-> <<"b", "r", "o", "n", "c", "o", "e", "s", "p", "a", "s", "m", "o">>, codigo |-> <<"J", "4", "5", ".", "9">>],
       [palabra |-> <<"t", "o", "s">>, codigo |-> <<"R", "0", "5">>],
       [palabra |-> <<"t", "o", "s", " ", "f", "e", "r", "i", "n", "a">>, codigo |-> <<"A", "3", "7", ".", "9">>],
       [palabra |-> <<"o", "t", "i", "t", "i", "s">>, codigo |-> <<"H", "6", "6", ".", "9">>],
       [palabra |-> <<"o", "t", "i", "t", "i", "s", " ", "m", "e", "d", "i", "a">>, codigo |-> <<"H", "6", "6", ".", "9">>],
       [palabra |-> <<"o", "t", "i", "t", "i", "s", " ", "e", "x", "t", "e", "r", "n", "a">>, codigo |-> <<"H", "6", "0", ".", "9">>],
       [palabra |-> <<"d", "o", "l", "o", "r", " ", "d", "e", " ", "o", "i'", "d", "o">>, codigo |-> <<"H", "9", "2", ".", "0">>],
       [palabra |-> <<"o", "t", "a", "l", "g", "i", "a">>, codigo |-> <<"H", "9", "2", ".", "0">>],
       [palabra |-> <<"c", "o", "n", "j", "u", "n", "t", "i", "v", "i", "t", "i", "s">>, codigo |-> <<"H", "1", "0", ".", "9">>],
       [palabra |-> <<"b", "l", "e", "f", "a", "r", "i", "t", "i", "s">>, codigo |-> <<"H", "0", "1", ".", "9">>],
       [palabra |-> <<"o", "r", "z", "u", "e", "l", "o">>, codigo |-> <<"H", "0", "0", ".", "0">>],
       [palabra |-> <<"c", "h", "a", "l", "a", "z", "i", "o'", "n">>, codigo |-> <<"H", "0", "0", ".", "1">>],
       [palabra |-> <<"d", "o", "l", "o", "r", " ", "a", "b", "d", "o", "m", "i", "n", "a", "l">>, codigo |-> <<"R", "1", "0", ".", "4">>],
       [palabra |-> <<"d", "o", "l", "o", "r", " ", "e", "s", "t", "o'", "m", "a", "g", "o">>, codigo |-> <<"K", "3", "0">>],
       [palabra |-> <<"d", "o", "l", "o", "r", " ", "d", "e", " ", "e", "s", "t", "o", "m", "a", "g", "o">>, codigo |-> <<"K", "3", "0">>],
       [palabra |-> <<"g", "a", "s", "t", "r", "i", "t", "i", "s">>, codigo |-> <<"K", "2", "9", ".", "7">>],
       [palabra |-> <<"u'", "l", "c", "e", "r", "a", " ", "g", "a'", "s", "t", "r", "i", "c", "a">>, codigo |-> <<"K", "2", "5", ".", "9">>],
       [palabra |-> <<"u", "l", "c", "e", "r", "a", " ", "g", "a", "s", "t", "r", "i", "c", "a">>, codigo |-> <<"K", "2", "5", ".", "9">>],
       [palabra |-> <<"r", "e", "f", "l", "u", "j", "o">>, codigo |-> <<"K", "2", "1", ".", "9">>],
       [palabra |-> <<"e", "s", "t", "r", "e", "n~", "i", "m", "i", "e", "n", "t", "o">>, codigo |-> <<"K", "5", "9", ".", "0">>],
       [palabra |-> <<"c", "o", "n", "s", "t", "i", "p", "a", "c", "i", "o'", "n">>, codigo |-> <<"K", "5", "9", ".", "0">>],
       [palabra |-> <<"a", "p", "e", "n", "d", "i", "c", "i", "t", "i", "s">>, codigo |-> <<"K", "3", "7">>],
       [palabra |-> <<"i", "n", "t", "u", "s", "u", "s", "c", "e", "p", "c", "i", "o'", "n">>, codigo |-> <<"K", "5", "6", ".", "1">>],
       [palabra |-> <<"i", "n", "t", "u", "s", "u", "s", "c", "e", "p", "c", "i", "o">>, codigo |-> <<"K", "5", "6", ".", "1">>],
       [palabra |-> <<"i", "n", "v", "a", "g", "i", "n", "a", "c", "i", "o'", "n">>, codigo |-> <<"K", "5", "6", ".", "1">>],
       [palabra |-> <<"c", "o'", "l", "i", "c", "o", " ", "i", "n", "t", "e", "s", "t", "i", "n", "a", "l">>, codigo |-> <<"K", "5", "9", ".", "1">>],
       [palabra |-> <<"c", "o", "l", "i", "c", "o", " ", "i", "n", "t", "e", "s", "t", "i", "n", "a", "l">>, codigo |-> <<"K", "5", "9", ".", "1">>],
       [palabra |-> <<"d", "e", "r", "m", "a", "t", "i", "t", "i", "s">>, codigo |-> <<"L", "3", "0", ".", "9">>],
       [palabra |-> <<"e", "c", "c", "e", "m", "a">>, codigo |-> <<"L", "2", "0", ".", "9">>],
       [palabra |-> <<"d", "e", "r", "m", "a", "t", "i", "t", "i", "s", " ", "a", "t", "o'", "p", "i", "c", "a">>, codigo |-> <<"L", "2", "0", ".", "9">>],
       [palabra |-> <<"d", "e", "r", "m", "a", "t", "i", "t", "i", "s", " ", "a", "t", "o", "p", "i", "c", "a">>, codigo |-> <<"L", "2", "0", ".", "9">>],
       [palabra |-> <<"d", "e", "r", "m", "a", "t", "i", "t", "i", "s", " ", "d", "e", "l", " ", "p", "a", "n~", "a", "l">>, codigo |-> <<"L", "2", "2">>],
       [palabra |-> <<"d", "e", "r", "m", "a", "t", "i", "t", "i", "s", " ", "d", "e", "l", " ", "p", "a", "n", "a", "l">>, codigo |-> <<"L", "2", "2">>],
       [palabra |-> <<"i", "m", "p", "e'", "t", "i", "g", "o">>, codigo |-> <<"L", "0", "1", ".", "0">>],
       [palabra |-> <<"i", "m", "p", "e", "t", "i", "g", "o">>, codigo |-> <<"L", "0", "1", ".", "0">>],
       [palabra |-> <<"c", "e", "l", "u", "l", "i", "t", "i", "s">>, codigo |-> <<"L", "0", "3", ".", "9">>],
       [palabra |-> <<"u", "r", "t", "i", "c", "a", "r", "i", "a">>, codigo |-> <<"L", "5", "0", ".", "9">>],
       [palabra |-> <<"s", "a", "r", "p", "u", "l", "l", "i", "d", "o">>, codigo |-> <<"L", "3", "0", ".", "9">>],
       [palabra |-> <<"e", "r", "u", "p", "c", "i", "o'", "n">>, codigo |-> <<"R", "2", "1">>],
       [palabra |-> <<"e", "r", "u", "p", "c", "i", "o", "n">>, codigo |-> <<"R", "2", "1">>],
       [palabra |-> <<"a", "c", "n", "e'">>, codigo |-> <<"L", "7", "0", ".", "9">>],
       [palabra |-> <<"a", "c", "n", "e">>, codigo |-> <<"L", "7", "0", ".", "9">>],
       [palabra |-> <<"p", "s", "o", "r", "i", "a", "s", "i", "s">>, codigo |-> <<"L", "4", "0", ".", "9">>],
       [palabra |-> <<"v", "i", "t", "i'", "l", "i", "g", "o">>, codigo |-> <<"L", "8", "0">>],
       [palabra |-> <<"v", "i", "t", "i", "l", "i", "g", "o">>, codigo |-> <<"L", "8", "0">>],
       [palabra |-> <<"f", "i", "e", "b", "r", "e">>, codigo |-> <<"R", "5", "0", ".", "9">>],
       [palabra |-> <<"h", "i", "p", "e", "r", "t", "e", "r", "m", "i", "a">>, codigo |-> <<"R", "5", "0", ".", "9">>],
       [palabra |-> <<"h", "i", "p", "o", "t", "e", "r", "m", "i", "a">>, codigo |-> <<"R", "6", "8", ".", "0">>],
       [palabra |-> <<"v", "o'", "m", "i", "t", "o">>, codigo |-> <<"R", "1", "1">>],
       [palabra |-> <<"v", "o", "m", "i", "t", "o">>, codigo |-> <<"R", "1", "1">>],
       [palabra |-> <<"n", "a'", "u", "s", "e", "a">>, codigo |-> <<"R", "1", "1">>],
       [palabra |-> <<"n", "a", "u", "s", "e", "a">>, codigo |-> <<"R", "1", "1">>],
       [palabra |-> <<"m", "a", "r", "e", "o">>, codigo |-> <<"R", "4", "2">>],
       [palabra |-> <<"c", "e", "f", "a", "l", "e", "a">>, codigo |-> <<"R", "5", "1">>],
       [palabra |-> <<"d", "o", "l", "o", "r", " ", "d", "e", " ", "c", "a", "b", "e", "z", "a">>, codigo |-> <<"R", "5", "1">>],
       [palabra |-> <<"f", "a", "t", "i", "g", "a">>, codigo |-> <<"R", "5", "3">>],
       [palabra |-> <<"c", "a", "n", "s", "a", "n", "c", "i", "o">>, codigo |-> <<"R", "5", "3">>],
       [palabra |-> <<"d", "e", "b", "i", "l", "i", "d", "a", "d">>, codigo |-> <<"R", "5", "3">>],
       [palabra |-> <<"p", "e'", "r", "d", "i", "d", "a", " ", "d", "e", " ", "p", "e", "s", "o">>, codigo |-> <<"R", "6", "3", ".", "4">>],
       [palabra |-> <<"p", "e", "r", "d", "i", "d", "a", " ", "d", "e", " ", "p", "e", "s", "o">>, codigo |-> <<"R", "6", "3", ".", "4">>],
       [palabra |-> <<"g", "a", "n", "a", "n", "c", "i", "a", " ", "d", "e", " ", "p", "e", "s", "o">>, codigo |-> <<"R", "6", "3", ".", "5">>],
       [palabra |-> <<"s", "u", "d", "o", "r", "a", "c", "i", "o'", "n">>, codigo |-> <<"R", "6", "1">>],
       [palabra |-> <<"s", "u", "d", "o", "r", "a", "c", "i", "o", "n">>, codigo |-> <<"R", "6", "1">>],
       [palabra |-> <<"p", "a", "l", "i", "d", "e", "z">>, codigo |-> <<"R", "2", "3", ".", "1">>],
       [palabra |-> <<"c", "i", "a", "n", "o", "s", "i", "s">>, codigo |-> <<"R", "2", "3", ".", "0">>],
       [palabra |-> <<"i", "c", "t", "e", "r", "i", "c", "i", "a">>, codigo |-> <<"R", "1", "7">>],
       [palabra |-> <<"c", "o", "n", "v", "u", "l", "s", "i", "o'", "n">>, codigo |-> <<"R", "5", "6", ".", "9">>],
       [palabra |-> <<"c", "o", "n", "v", "u", "l", "s", "i", "o", "n">>, codigo |-> <<"R", "5", "6", ".", "9">>],
       [palabra |-> <<"d", "e", "s", "n", "u", "t", "r", "i", "c", "i", "o'", "n">>, codigo |-> <<"E", "4", "4", ".", "1">>],
       [palabra |-> <<"d", "e", "s", "n", "u", "t", "r", "i", "c", "i", "o", "n">>, codigo |-> <<"E", "4", "4", ".", "1">>],
       [palabra |-> <<"m", "a", "r", "a", "s", "m", "o">>, codigo |-> <<"E", "4", "1">>],
       [palabra |-> <<"k", "w", "a", "s", "h", "i", "o", "r", "k", "o", "r">>, codigo |-> <<"E", "4", "0">>],
       [palabra |-> <<"o", "b", "e", "s", "i", "d", "a", "d">>, codigo |-> <<"E", "6", "6", ".", "9">>],
       [palabra |-> <<"d", "i", "a", "b", "e", "t", "e", "s">>, codigo |-> <<"E", "1", "4", ".", "9">>],
       [palabra |-> <<"h", "i", "p", "o", "g", "l", "u", "c", "e", "m", "i", "a">>, codigo |-> <<"E", "1", "6", ".", "2">>],
       [palabra |-> <<"h", "i", "p", "e", "r", "g", "l", "u", "c", "e", "m", "i", "a">>, codigo |-> <<"R", "7", "3", ".", "9">>],
       [palabra |-> <<"r", "a", "q", "u", "i", "t", "i", "s", "m", "o">>, codigo |-> <<"E", "5", "5", ".", "0">>],
       [palabra |-> <<"e", "s", "c", "o", "r", "b", "u", "t", "o">>, codigo |-> <<"E", "5", "4">>],
       [palabra |-> <<"a", "n", "e", "m", "i", "a">>, codigo |-> <<"D", "6", "4", ".", "9">>],
       [palabra |-> <<"a", "n", "e", "m", "i", "a", " ", "f", "e", "r", "r", "o", "p", "e'", "n", "i", "c", "a">>, codigo |-> <<"D", "5", "0", ".", "9">>],
       [palabra |-> <<"a", "n", "e", "m", "i", "a", " ", "f", "e", "r", "r", "o", "p", "e", "n", "i", "c", "a">>, codigo |-> <<"D", "5", "0", ".", "9">>],
       [palabra |-> <<"a", "u", "t", "i", "s", "m", "o">>, codigo |-> <<"F", "8", "4", ".", "0">>],
       [palabra |-> <<"t", "d", "a", "h">>, codigo |-> <<"F", "9", "0", ".", "9">>],
       [palabra |-> <<"h", "i", "p", "e", "r", "a", "c", "t", "i", "v", "i", "d", "a", "d">>, codigo |-> <<"F", "9", "0", ".", "9">>],
       [palabra |-> <<"a", "n", "s", "i", "e", "d", "a", "d">>, codigo |-> <<"F", "4", "1", ".", "9">>],
       [palabra |-> <<"d", "e", "p", "r", "e", "s", "i", "o'", "n">>, codigo |-> <<"F", "3", "2", ".", "9">>],
       [palabra |-> <<"d", "e", "p", "r", "e", "s", "i", "o", "n">>, codigo |-> <<"F", "3", "2", ".", "9">>],
       [palabra |-> <<"t", "r", "a", "s", "t", "o", "r", "n", "o", " ", "d", "e", "l", " ", "s", "u", "e", "n~", "o">>, codigo |-> <<"G", "4", "7", ".", "9">>],
       [palabra |-> <<"t", "r", "a", "s", "t", "o", "r", "n", "o", " ", "d", "e", "l", " ", "s", "u", "e", "n", "o">>, codigo |-> <<"G", "4", "7", ".", "9">>],
       [palabra |-> <<"i", "n", "s", "o", "m", "n", "i", "o">>, codigo |-> <<"G", "4", "7", ".", "0">>],
       [palabra |-> <<"c", "a", "r", "d", "i", "o", "p", "a", "t", "i'", "a", " ", "c", "o", "n", "g", "e'", "n", "i", "t", "a">>, codigo |-> <<"Q", "2", "4", ".", "9">>],
       [palabra |-> <<"c", "a", "r", "d", "i", "o", "p", "a", "t", "i", "a", " ", "c", "o", "n", "g", "e", "n", "i", "t", "a">>, codigo |-> <<"Q", "2", "4", ".", "9">>],
       [palabra |-> <<"l", "a", "b", "i", "o", " ", "l", "e", "p", "o", "r", "i", "n", "o">>, codigo |-> <<"Q", "3", "6", ".", "9">>],
       [palabra |-> <<"p", "a", "l", "a", "d", "a", "r", " ", "h", "e", "n", "d", "i", "d", "o">>, codigo |-> <<"Q", "3", "5", ".", "9">>],
       [palabra |-> <<"p", "i", "e", " ", "z", "a", "m", "b", "o">>, codigo |-> <<"Q", "6", "6", ".", "8">>],
       [palabra |-> <<"l", "u", "x", "a", "c", "i", "o'", "n", " ", "c", "o", "n", "g", "e'", "n", "i", "t", "a", " ", "c", "a", "d", "e", "r", "a">>, codigo |-> <<"Q", "6", "5", ".", "9">>],
       [palabra |-> <<"l", "u", "x", "a", "c", "i", "o", "n", " ", "c", "o", "n", "g", "e", "n", "i", "t", "a", " ", "c", "a", "d", "e", "r", "a">>, codigo |-> <<"Q", "6", "5", ".", "9">>],
       [palabra |-> <<"f", "r", "a", "c", "t", "u", "r", "a">>, codigo |-> <<"S", "7", "2", ".", "9">>],
       [palabra |-> <<"l", "u", "x", "a", "c", "i", "o'", "n">>, codigo |-> <<"S", "7", "3", ".", "0">>],
       [palabra |-> <<"l", "u", "x", "a", "c", "i", "o", "n">>, codigo |-> <<"S", "7", "3", ".", "0">>],
       [palabra |-> <<"e", "s", "g", "u", "i", "n", "c", "e">>, codigo |-> <<"S", "8", "3", ".", "5">>],
       [palabra |-> <<"c", "o", "n", "t", "u", "s", "i", "o'", "n">>, codigo |-> <<"S", "3", "0", ".", "1">>],
       [palabra |-> <<"c", "o", "n", "t", "u", "s", "i", "o", "n">>, codigo |-> <<"S", "3", "0", ".", "1">>],
       [palabra |-> <<"h", "e", "r", "i", "d", "a">>, codigo |-> <<"T", "1", "4", ".", "1">>],
       [palabra |-> <<"q", "u", "e", "m", "a", "d", "u", "r", "a">>, codigo |-> <<"T", "3", "0", ".", "0">>],
       [palabra |-> <<"i", "n", "t", "o", "x", "i", "c", "a", "c", "i", "o'", "n">>, codigo |-> <<"T", "6", "5", ".", "9">>],
       [palabra |-> <<"i", "n", "t", "o", "x", "i", "c", "a", "c", "i", "o", "n">>, codigo |-> <<"T", "6", "5", ".", "9">>],
       [palabra |-> <<"e", "n", "v", "e", "n", "e", "n", "a", "m", "i", "e", "n", "t", "o">>, codigo |-> <<"T", "6", "5", ".", "9">>] >>

\* the first loop: the keywords that occur in the diagnosis
BusquedaExacta(diagnostico_lower) ==
    {i \in DOMAIN clasificaciones : In(clasificaciones[i].palabra, diagnostico_lower)}

\* the inner loop of the second search, for one word of the diagnosis
BusquedaPorClave(palabra) ==
    {i \in DOMAIN clasificaciones :
        In(palabra, clasificaciones[i].palabra) \/ In(clasificaciones[i].palabra, palabra)}

\* the second loop, over the words of more than 3 characters
RECURSIVE BusquedaPorPalabras(_)
BusquedaPorPalabras(palabras) ==
    IF palabras = <<>> THEN None
    ELSE IF Len(Head(palabras)) > 3 /\ BusquedaPorClave(Head(palabras)) # {}
         THEN clasificaciones[Primera(BusquedaPorClave(Head(palabras)))].codigo
    ELSE BusquedaPorPalabras(Tail(palabras))

\* the classifier without its first loop
clasificar_cie10_inteligente_sin_exacta(diagnostico) ==
    IF ~bool(diagnostico) THEN None ELSE BusquedaPorPalabras(split(lower(diagnostico)))

clasificar_cie10_inteligente(diagnostico) ==
    IF ~bool(diagnostico) THEN None
    ELSE IF BusquedaExacta(lower(diagnostico)) # {}
         THEN clasificaciones[Primera(BusquedaExacta(lower(diagnostico)))].codigo
    ELSE BusquedaPorPalabras(split(lower(diagnostico)))

capitulos(letra) ==
    CASE letra = "A" -> "Capitulo I - Ciertas enfermedades infecciosas y parasitarias (A00-B99)"
      [] letra = "B" -> "Capitulo I - Ciertas enfermedades infecciosas y parasitarias (A00-B99)"
      [] letra = "C" -> "Capitulo II - Neoplasias (C00-D48)"
      [] letra = "D" -> "Capitulo III - Enfermedades de la sangre y organos hematopoyeticos (D50-D89)"
      [] letra = "E" -> "Capitulo IV - Enfermedades endocrinas, nutricionales y metabolicas (E00-E90)"
      [] letra = "F" -> "Capitulo V - Trastornos mentales y del comportamiento (F00-F99)"
      [] letra = "G" -> "Capitulo VI - Enfermedades del sistema nervioso (G00-G99)"
      [] letra = "H" -> "Capitulo VII - Enfermedades del ojo y del oido (H00-H95)"
      [] letra = "I" -> "Capitulo IX - Enfermedades del sistema circulatorio (I00-I99)"
      [] letra = "J" -> "Capitulo X - Enfermedades del sistema respiratorio (J00-J99)"
      [] letra = "K" -> "Capitulo XI - Enfermedades del sistema digestivo (K00-K93)"
      [] letra = "L" -> "Capitulo XII - Enfermedades de la piel y tejido subcutaneo (L00-L99)"
      [] letra = "M" -> "Capitulo XIII - Enfermedades del sistema osteomuscular (M00-M99)"
      [] letra = "N" -> "Capitulo XIV - Enfermedades del sistema genitourinario (N00-N99)"
      [] letra = "O" -> "Capitulo XV - Embarazo, parto y puerperio (O00-O99)"
      [] letra = "P" -> "Capitulo XVI - Ciertas afecciones originadas en el periodo perinatal (P00-P96)"
      [] letra = "Q" -> "Capitulo XVII - Malformaciones congenitas (Q00-Q99)"
      [] letra = "R" -> "Capitulo XVIII - Sintomas, signos y hallazgos anormales (R00-R99)"
      [] letra = "S" -> "Capitulo XIX - Traumatismos, envenenamientos (S00-T98)"
      [] letra = "T" -> "Capitulo XIX - Traumatismos, envenenamientos (S00-T98)"
      [] letra = "V" -> "Capitulo XX - Causas externas de morbilidad y mortalidad (V01-Y98)"
      [] letra = "W" -> "Capitulo XX - Causas externas de morbilidad y mortalidad (V01-Y98)"
      [] letra = "X" -> "Capitulo XX - Causas externas de morbilidad y mortalidad (V01-Y98)"
      [] letra = "Y" -> "Capitulo XX - Causas externas de morbilidad y mortalidad (V01-Y98)"
      [] letra = "Z" -> "Capitulo XXI - Factores que influyen en el estado de salud (Z00-Z99)"
      [] OTHER -> "No clasificado"

obtener_capitulo_cie10(codigo) ==
    IF ~bool(codigo) THEN "No clasificado" ELSE capitulos(upper_char(codigo[1]))

LetrasAZ ==
    {"A", "B", "C", "D", "E", "F", "G", "H", "I", "J", "K", "L", "M",
     "N", "O", "P", "Q", "R", "S", "T", "U", "V", "W", "X", "Y", "Z"}

\* re.match(r'^[A-Z]\d{2}(\.\d)?$', codigo)
FormatoCIE10(codigo) ==
    /\ Len(codigo) \in {3, 5}
    /\ codigo[1] \in LetrasAZ /\ codigo[2] \in Digitos /\ codigo[3] \in Digitos
    /\ Len(codigo) = 5 => codigo[4] = "." /\ codigo[5] \in Digitos

\* chat.send_message raised
Excepcion == <<"Exception">>

NONE == <<"N", "O", "N", "E">>

\* the answer of the model is CODIGO|DESCRIPCION with a code of CIE-10 form
RespuestaUtil(respuesta) ==
    /\ respuesta # Excepcion /\ bool(respuesta) /\ Contains(respuesta, "|")
    /\ SplitUna(strip(respuesta), "|")[1] # NONE
    /\ FormatoCIE10(strip(SplitUna(strip(respuesta), "|")[1]))

\* ia is what the environment gives: whether EMERGENT_LLM_KEY is set, and
\* what chat.send_message does
clasificar_cie10_inteligente_con_ai(diagnostico, ia) ==
    IF ~bool(diagnostico) THEN [codigo |-> None, confianza |-> "baja", descripcion |-> None]
    ELSE IF ia.clave /\ RespuestaUtil(ia.respuesta)
         THEN [codigo |-> strip(SplitUna(strip(ia.respuesta), "|")[1]),
               descripcion |-> strip(SplitUna(strip(ia.respuesta), "|")[2]),
               confianza |-> "alta", metodo |-> "ai"]
    ELSE IF bool(clasificar_cie10_inteligente(diagnostico))
         THEN [codigo |-> clasificar_cie10_inteligente(diagnostico), descripcion |-> None,
               confianza |-> "media", metodo |-> "reglas"]
    ELSE [codigo |-> None, confianza |-> "baja", descripcion |-> None, metodo |-> "ninguno"]

\* the collection cie10_codes as initialize_cie10_codes_expandido seeds it
cie10_codes ==
    << [codigo |-> <<"G", "9", "1", ".", "9">>, descripcion |-> <<"H", "i", "d", "r", "o", "c", "e", "f", "a", "l", "i", "a", ",", " ", "n", "o", " ", "e", "s", "p", "e", "c", "i", "f", "i", "c", "a", "d", "a">>],
       [codigo |-> <<"G", "0", "3", ".", "9">>, descripcion |-> <<"M", "e", "n", "i", "n", "g", "i", "t", "i", "s", ",", " ", "n", "o", " ", "e", "s", "p", "e", "c", "i", "f", "i", "c", "a", "d", "a">>],
       [codigo |-> <<"G", "0", "4", ".", "9">>, descripcion |-> <<"E", "n", "c", "e", "f", "a", "l", "i", "t", "i", "s", ",", " ", "n", "o", " ", "e", "s", "p", "e", "c", "i", "f", "i", "c", "a", "d", "a">>],
       [codigo |-> <<"G", "4", "0", ".", "9">>, descripcion |-> <<"E", "p", "i", "l", "e", "p", "s", "i", "a", ",", " ", "n", "o", " ", "e", "s", "p", "e", "c", "i", "f", "i", "c", "a", "d", "a">>],
       [codigo |-> <<"G", "8", "0", ".", "9">>, descripcion |-> <<"P", "a", "r", "a'", "l", "i", "s", "i", "s", " ", "c", "e", "r", "e", "b", "r", "a", "l", ",", " ", "n", "o", " ", "e", "s", "p", "e", "c", "i", "f", "i", "c", "a", "d", "a">>],
       [codigo |-> <<"Q", "0", "2">>, descripcion |-> <<"M", "i", "c", "r", "o", "c", "e", "f", "a", "l", "i", "a">>],
       [codigo |-> <<"Q", "7", "5", ".", "3">>, descripcion |-> <<"M", "a", "c", "r", "o", "c", "e", "f", "a", "l", "i", "a">>],
       [codigo |-> <<"Q", "0", "5", ".", "9">>, descripcion |-> <<"E", "s", "p", "i", "n", "a", " ", "b", "i'", "f", "i", "d", "a", ",", " ", "n", "o", " ", "e", "s", "p", "e", "c", "i", "f", "i", "c", "a", "d", "a">>],
       [codigo |-> <<"J", "0", "0">>, descripcion |-> <<"R", "i", "n", "o", "f", "a", "r", "i", "n", "g", "i", "t", "i", "s", " ", "a", "g", "u", "d", "a", " ", "(", "r", "e", "s", "f", "r", "i", "a", "d", "o", " ", "c", "o", "m", "u'", "n", ")">>],
       [codigo |-> <<"J", "0", "1", ".", "9">>, descripcion |-> <<"S", "i", "n", "u", "s", "i", "t", "i", "s", " ", "a", "g", "u", "d", "a", ",", " ", "n", "o", " ", "e", "s", "p", "e", "c", "i", "f", "i", "c", "a", "d", "a">>],
       [codigo |-> <<"J", "0", "2", ".", "9">>, descripcion |-> <<"F", "a", "r", "i", "n", "g", "i", "t", "i", "s", " ", "a", "g", "u", "d", "a", ",", " ", "n", "o", " ", "e", "s", "p", "e", "c", "i", "f", "i", "c", "a", "d", "a">>],
       [codigo |-> <<"J", "0", "3", ".", "9">>, descripcion |-> <<"A", "m", "i", "g", "d", "a", "l", "i", "t", "i", "s", " ", "a", "g", "u", "d", "a", ",", " ", "n", "o", " ", "e", "s", "p", "e", "c", "i", "f", "i", "c", "a", "d", "a">>],
       [codigo |-> <<"J", "0", "4", ".", "0">>, descripcion |-> <<"L", "a", "r", "i", "n", "g", "i", "t", "i", "s", " ", "a", "g", "u", "d", "a">>],
       [codigo |-> <<"J", "0", "4", ".", "1">>, descripcion |-> <<"T", "r", "a", "q", "u", "e", "i'", "t", "i", "s", " ", "a", "g", "u", "d", "a">>],
       [codigo |-> <<"J", "0", "5", ".", "0">>, descripcion |-> <<"L", "a", "r", "i", "n", "g", "i", "t", "i", "s", " ", "o", "b", "s", "t", "r", "u", "c", "t", "i", "v", "a", " ", "a", "g", "u", "d", "a", " ", "(", "c", "r", "u", "p", ")">>],
       [codigo |-> <<"J", "0", "6", ".", "9">>, descripcion |-> <<"I", "n", "f", "e", "c", "c", "i", "o'", "n", " ", "a", "g", "u", "d", "a", " ", "d", "e", " ", "v", "i'", "a", "s", " ", "r", "e", "s", "p", "i", "r", "a", "t", "o", "r", "i", "a", "s", " ", "s", "u", "p", "e", "r", "i", "o", "r", "e", "s">>],
       [codigo |-> <<"J", "1", "1", ".", "1">>, descripcion |-> <<"I", "n", "f", "l", "u", "e", "n", "z", "a", " ", "c", "o", "n", " ", "o", "t", "r", "a", "s", " ", "m", "a", "n", "i", "f", "e", "s", "t", "a", "c", "i", "o", "n", "e", "s", " ", "r", "e", "s", "p", "i", "r", "a", "t", "o", "r", "i", "a", "s">>],
       [codigo |-> <<"J", "1", "2", ".", "9">>, descripcion |-> <<"N", "e", "u", "m", "o", "n", "i'", "a", " ", "v", "i", "r", "a", "l", ",", " ", "n", "o", " ", "e", "s", "p", "e", "c", "i", "f", "i", "c", "a", "d", "a">>],
       [codigo |-> <<"J", "1", "3">>, descripcion |-> <<"N", "e", "u", "m", "o", "n", "i'", "a", " ", "p", "o", "r", " ", "S", "t", "r", "e", "p", "t", "o", "c", "o", "c", "c", "u", "s", " ", "p", "n", "e", "u", "m", "o", "n", "i", "a", "e">>],
       [codigo |-> <<"J", "1", "8", ".", "9">>, descripcion |-> <<"N", "e", "u", "m", "o", "n", "i'", "a", ",", " ", "n", "o", " ", "e", "s", "p", "e", "c", "i", "f", "i", "c", "a", "d", "a">>],
       [codigo |-> <<"J", "2", "0", ".", "9">>, descripcion |-> <<"B", "r", "o", "n", "q", "u", "i", "t", "i", "s", " ", "a", "g", "u", "d", "a", ",", " ", "n", "o", " ", "e", "s", "p", "e", "c", "i", "f", "i", "c", "a", "d", "a">>],
       [codigo |-> <<"J", "2", "1", ".", "9">>, descripcion |-> <<"B", "r", "o", "n", "q", "u", "i", "o", "l", "i", "t", "i", "s", " ", "a", "g", "u", "d", "a", ",", " ", "n", "o", " ", "e", "s", "p", "e", "c", "i", "f", "i", "c", "a", "d", "a">>],
       [codigo |-> <<"J", "4", "5", ".", "9">>, descripcion |-> <<"A", "s", "m", "a", ",", " ", "n", "o", " ", "e", "s", "p", "e", "c", "i", "f", "i", "c", "a", "d", "a">>],
       [codigo |-> <<"A", "3", "7", ".", "9">>, descripcion |-> <<"T", "o", "s", " ", "f", "e", "r", "i", "n", "a", ",", " ", "n", "o", " ", "e", "s", "p", "e", "c", "i", "f", "i", "c", "a", "d", "a">>],
       [codigo |-> <<"H", "6", "0", ".", "9">>, descripcion |-> <<"O", "t", "i", "t", "i", "s", " ", "e", "x", "t", "e", "r", "n", "a", ",", " ", "n", "o", " ", "e", "s", "p", "e", "c", "i", "f", "i", "c", "a", "d", "a">>],
       [codigo |-> <<"H", "6", "5", ".", "9">>, descripcion |-> <<"O", "t", "i", "t", "i", "s", " ", "m", "e", "d", "i", "a", " ", "n", "o", " ", "s", "u", "p", "u", "r", "a", "t", "i", "v", "a", ",", " ", "n", "o", " ", "e", "s", "p", "e", "c", "i", "f", "i", "c", "a", "d", "a">>],
       [codigo |-> <<"H", "6", "6", ".", "9">>, descripcion |-> <<"O", "t", "i", "t", "i", "s", " ", "m", "e", "d", "i", "a", ",", " ", "n", "o", " ", "e", "s", "p", "e", "c", "i", "f", "i", "c", "a", "d", "a">>],
       [codigo |-> <<"H", "9", "2", ".", "0">>, descripcion |-> <<"O", "t", "a", "l", "g", "i", "a">>],
       [codigo |-> <<"H", "1", "0", ".", "9">>, descripcion |-> <<"C", "o", "n", "j", "u", "n", "t", "i", "v", "i", "t", "i", "s", ",", " ", "n", "o", " ", "e", "s", "p", "e", "c", "i", "f", "i", "c", "a", "d", "a">>],
       [codigo |-> <<"H", "0", "0", ".", "0">>, descripcion |-> <<"O", "r", "z", "u", "e", "l", "o">>],
       [codigo |-> <<"H", "0", "1", ".", "9">>, descripcion |-> <<"B", "l", "e", "f", "a", "r", "i", "t", "i", "s", ",", " ", "n", "o", " ", "e", "s", "p", "e", "c", "i", "f", "i", "c", "a", "d", "a">>],
       [codigo |-> <<"A", "0", "9", ".", "9">>, descripcion |-> <<"D", "i", "a", "r", "r", "e", "a", " ", "y", " ", "g", "a", "s", "t", "r", "o", "e", "n", "t", "e", "r", "i", "t", "i", "s", " ", "d", "e", " ", "p", "r", "e", "s", "u", "n", "t", "o", " ", "o", "r", "i", "g", "e", "n", " ", "i", "n", "f", "e", "c", "c", "i", "o", "s", "o">>],
       [codigo |-> <<"A", "0", "9", ".", "0">>, descripcion |-> <<"G", "a", "s", "t", "r", "o", "e", "n", "t", "e", "r", "i", "t", "i", "s", " ", "y", " ", "c", "o", "l", "i", "t", "i", "s", " ", "d", "e", " ", "o", "r", "i", "g", "e", "n", " ", "i", "n", "f", "e", "c", "c", "i", "o", "s", "o">>],
       [codigo |-> <<"A", "0", "8", ".", "0">>, descripcion |-> <<"E", "n", "t", "e", "r", "i", "t", "i", "s", " ", "p", "o", "r", " ", "r", "o", "t", "a", "v", "i", "r", "u", "s">>],
       [codigo |-> <<"K", "3", "0">>, descripcion |-> <<"D", "i", "s", "p", "e", "p", "s", "i", "a", " ", "f", "u", "n", "c", "i", "o", "n", "a", "l">>],
       [codigo |-> <<"K", "2", "9", ".", "7">>, descripcion |-> <<"G", "a", "s", "t", "r", "i", "t", "i", "s", ",", " ", "n", "o", " ", "e", "s", "p", "e", "c", "i", "f", "i", "c", "a", "d", "a">>],
       [codigo |-> <<"K", "2", "1", ".", "9">>, descripcion |-> <<"E", "n", "f", "e", "r", "m", "e", "d", "a", "d", " ", "d", "e", " ", "r", "e", "f", "l", "u", "j", "o", " ", "g", "a", "s", "t", "r", "o", "e", "s", "o", "f", "a'", "g", "i", "c", "o">>],
       [codigo |-> <<"K", "5", "9", ".", "0">>, descripcion |-> <<"E", "s", "t", "r", "e", "n~", "i", "m", "i", "e", "n", "t", "o">>],
       [codigo |-> <<"K", "3", "7">>, descripcion |-> <<"A", "p", "e", "n", "d", "i", "c", "i", "t", "i", "s", ",", " ", "n", "o", " ", "e", "s", "p", "e", "c", "i", "f", "i", "c", "a", "d", "a">>],
       [codigo |-> <<"K", "5", "6", ".", "1">>, descripcion |-> <<"I", "n", "t", "u", "s", "u", "s", "c", "e", "p", "c", "i", "o'", "n">>],
       [codigo |-> <<"L", "2", "0", ".", "9">>, descripcion |-> <<"D", "e", "r", "m", "a", "t", "i", "t", "i", "s", " ", "a", "t", "o'", "p", "i", "c", "a", ",", " ", "n", "o", " ", "e", "s", "p", "e", "c", "i", "f", "i", "c", "a", "d", "a">>],
       [codigo |-> <<"L", "2", "1", ".", "9">>, descripcion |-> <<"D", "e", "r", "m", "a", "t", "i", "t", "i", "s", " ", "s", "e", "b", "o", "r", "r", "e", "i", "c", "a", ",", " ", "n", "o", " ", "e", "s", "p", "e", "c", "i", "f", "i", "c", "a", "d", "a">>],
       [codigo |-> <<"L", "2", "2">>, descripcion |-> <<"D", "e", "r", "m", "a", "t", "i", "t", "i", "s", " ", "d", "e", "l", " ", "p", "a", "n~", "a", "l">>],
       [codigo |-> <<"L", "3", "0", ".", "9">>, descripcion |-> <<"D", "e", "r", "m", "a", "t", "i", "t", "i", "s", ",", " ", "n", "o", " ", "e", "s", "p", "e", "c", "i", "f", "i", "c", "a", "d", "a">>],
       [codigo |-> <<"L", "0", "1", ".", "0">>, descripcion |-> <<"I", "m", "p", "e'", "t", "i", "g", "o">>],
       [codigo |-> <<"L", "0", "3", ".", "9">>, descripcion |-> <<"C", "e", "l", "u", "l", "i", "t", "i", "s", ",", " ", "n", "o", " ", "e", "s", "p", "e", "c", "i", "f", "i", "c", "a", "d", "a">>],
       [codigo |-> <<"L", "5", "0", ".", "9">>, descripcion |-> <<"U", "r", "t", "i", "c", "a", "r", "i", "a", ",", " ", "n", "o", " ", "e", "s", "p", "e", "c", "i", "f", "i", "c", "a", "d", "a">>],
       [codigo |-> <<"L", "7", "0", ".", "9">>, descripcion |-> <<"A", "c", "n", "e'", ",", " ", "n", "o", " ", "e", "s", "p", "e", "c", "i", "f", "i", "c", "a", "d", "o">>],
       [codigo |-> <<"R", "5", "0", ".", "9">>, descripcion |-> <<"F", "i", "e", "b", "r", "e", ",", " ", "n", "o", " ", "e", "s", "p", "e", "c", "i", "f", "i", "c", "a", "d", "a">>],
       [codigo |-> <<"R", "0", "5">>, descripcion |-> <<"T", "o", "s">>],
       [codigo |-> <<"R", "0", "6", ".", "2">>, descripcion |-> <<"S", "i", "b", "i", "l", "a", "n", "c", "i", "a", "s">>],
       [codigo |-> <<"R", "1", "0", ".", "4">>, descripcion |-> <<"O", "t", "r", "o", "s", " ", "d", "o", "l", "o", "r", "e", "s", " ", "a", "b", "d", "o", "m", "i", "n", "a", "l", "e", "s", " ", "y", " ", "l", "o", "s", " ", "n", "o", " ", "e", "s", "p", "e", "c", "i", "f", "i", "c", "a", "d", "o", "s">>],
       [codigo |-> <<"R", "1", "1">>, descripcion |-> <<"N", "a'", "u", "s", "e", "a", " ", "y", " ", "v", "o'", "m", "i", "t", "o">>],
       [codigo |-> <<"R", "5", "1">>, descripcion |-> <<"C", "e", "f", "a", "l", "e", "a">>],
       [codigo |-> <<"R", "5", "3">>, descripcion |-> <<"M", "a", "l", "e", "s", "t", "a", "r", " ", "y", " ", "f", "a", "t", "i", "g", "a">>],
       [codigo |-> <<"R", "5", "6", ".", "8">>, descripcion |-> <<"O", "t", "r", "a", "s", " ", "c", "o", "n", "v", "u", "l", "s", "i", "o", "n", "e", "s", " ", "y", " ", "l", "a", "s", " ", "n", "o", " ", "e", "s", "p", "e", "c", "i", "f", "i", "c", "a", "d", "a", "s">>],
       [codigo |-> <<"R", "1", "7">>, descripcion |-> <<"I", "c", "t", "e", "r", "i", "c", "i", "a", " ", "n", "o", " ", "e", "s", "p", "e", "c", "i", "f", "i", "c", "a", "d", "a">>],
       [codigo |-> <<"R", "2", "1">>, descripcion |-> <<"E", "r", "u", "p", "c", "i", "o'", "n", " ", "c", "u", "t", "a'", "n", "e", "a", " ", "y", " ", "o", "t", "r", "a", "s", " ", "e", "r", "u", "p", "c", "i", "o", "n", "e", "s", " ", "c", "u", "t", "a'", "n", "e", "a", "s", " ", "n", "o", " ", "e", "s", "p", "e", "c", "i'", "f", "i", "c", "a", "s">>],
       [codigo |-> <<"E", "4", "0">>, descripcion |-> <<"K", "w", "a", "s", "h", "i", "o", "r", "k", "o", "r">>],
       [codigo |-> <<"E", "4", "1">>, descripcion |-> <<"M", "a", "r", "a", "s", "m", "o", " ", "n", "u", "t", "r", "i", "c", "i", "o", "n", "a", "l">>],
       [codigo |-> <<"E", "4", "4", ".", "1">>, descripcion |-> <<"D", "e", "s", "n", "u", "t", "r", "i", "c", "i", "o'", "n", " ", "p", "r", "o", "t", "e", "i", "c", "o", "-", "c", "a", "l", "o'", "r", "i", "c", "a", " ", "l", "e", "v", "e">>],
       [codigo |-> <<"E", "6", "6", ".", "9">>, descripcion |-> <<"O", "b", "e", "s", "i", "d", "a", "d", ",", " ", "n", "o", " ", "e", "s", "p", "e", "c", "i", "f", "i", "c", "a", "d", "a">>],
       [codigo |-> <<"E", "5", "5", ".", "0">>, descripcion |-> <<"R", "a", "q", "u", "i", "t", "i", "s", "m", "o", " ", "a", "c", "t", "i", "v", "o">>],
       [codigo |-> <<"D", "5", "0", ".", "9">>, descripcion |-> <<"A", "n", "e", "m", "i", "a", " ", "p", "o", "r", " ", "d", "e", "f", "i", "c", "i", "e", "n", "c", "i", "a", " ", "d", "e", " ", "h", "i", "e", "r", "r", "o">>],
       [codigo |-> <<"D", "6", "4", ".", "9">>, descripcion |-> <<"A", "n", "e", "m", "i", "a", ",", " ", "n", "o", " ", "e", "s", "p", "e", "c", "i", "f", "i", "c", "a", "d", "a">>],
       [codigo |-> <<"A", "0", "0", ".", "9">>, descripcion |-> <<"C", "o'", "l", "e", "r", "a", ",", " ", "n", "o", " ", "e", "s", "p", "e", "c", "i", "f", "i", "c", "a", "d", "o">>],
       [codigo |-> <<"A", "0", "1", ".", "0">>, descripcion |-> <<"F", "i", "e", "b", "r", "e", " ", "t", "i", "f", "o", "i", "d", "e", "a">>],
       [codigo |-> <<"A", "0", "2", ".", "9">>, descripcion |-> <<"I", "n", "f", "e", "c", "c", "i", "o'", "n", " ", "p", "o", "r", " ", "S", "a", "l", "m", "o", "n", "e", "l", "l", "a", ",", " ", "n", "o", " ", "e", "s", "p", "e", "c", "i", "f", "i", "c", "a", "d", "a">>],
       [codigo |-> <<"A", "0", "3", ".", "9">>, descripcion |-> <<"S", "h", "i", "g", "e", "l", "o", "s", "i", "s", ",", " ", "n", "o", " ", "e", "s", "p", "e", "c", "i", "f", "i", "c", "a", "d", "a">>],
       [codigo |-> <<"B", "0", "0", ".", "9">>, descripcion |-> <<"I", "n", "f", "e", "c", "c", "i", "o'", "n", " ", "p", "o", "r", " ", "v", "i", "r", "u", "s", " ", "d", "e", "l", " ", "h", "e", "r", "p", "e", "s", " ", "s", "i", "m", "p", "l", "e">>],
       [codigo |-> <<"B", "0", "1", ".", "9">>, descripcion |-> <<"V", "a", "r", "i", "c", "e", "l", "a", " ", "s", "i", "n", " ", "c", "o", "m", "p", "l", "i", "c", "a", "c", "i", "o'", "n">>],
       [codigo |-> <<"B", "0", "2", ".", "9">>, descripcion |-> <<"H", "e", "r", "p", "e", "s", " ", "z", "o'", "s", "t", "e", "r", " ", "s", "i", "n", " ", "c", "o", "m", "p", "l", "i", "c", "a", "c", "i", "o'", "n">>],
       [codigo |-> <<"B", "0", "5", ".", "9">>, descripcion |-> <<"S", "a", "r", "a", "m", "p", "i", "o'", "n", " ", "s", "i", "n", " ", "c", "o", "m", "p", "l", "i", "c", "a", "c", "i", "o'", "n">>],
       [codigo |-> <<"B", "0", "6", ".", "9">>, descripcion |-> <<"R", "u", "b", "e'", "o", "l", "a", " ", "s", "i", "n", " ", "c", "o", "m", "p", "l", "i", "c", "a", "c", "i", "o'", "n">>],
       [codigo |-> <<"B", "1", "5", ".", "9">>, descripcion |-> <<"H", "e", "p", "a", "t", "i", "t", "i", "s", " ", "A", " ", "s", "i", "n", " ", "c", "o", "m", "a", " ", "h", "e", "p", "a'", "t", "i", "c", "o">>],
       [codigo |-> <<"B", "2", "5", ".", "9">>, descripcion |-> <<"E", "n", "f", "e", "r", "m", "e", "d", "a", "d", " ", "p", "o", "r", " ", "c", "i", "t", "o", "m", "e", "g", "a", "l", "o", "v", "i", "r", "u", "s", ",", " ", "n", "o", " ", "e", "s", "p", "e", "c", "i", "f", "i", "c", "a", "d", "a">>],
       [codigo |-> <<"B", "2", "6", ".", "9">>, descripcion |-> <<"P", "a", "r", "o", "t", "i", "d", "i", "t", "i", "s", ",", " ", "n", "o", " ", "e", "s", "p", "e", "c", "i", "f", "i", "c", "a", "d", "a">>],
       [codigo |-> <<"B", "3", "7", ".", "9">>, descripcion |-> <<"C", "a", "n", "d", "i", "d", "i", "a", "s", "i", "s", ",", " ", "n", "o", " ", "e", "s", "p", "e", "c", "i", "f", "i", "c", "a", "d", "a">>],
       [codigo |-> <<"Q", "2", "4", ".", "9">>, descripcion |-> <<"M", "a", "l", "f", "o", "r", "m", "a", "c", "i", "o'", "n", " ", "c", "o", "n", "g", "e'", "n", "i", "t", "a", " ", "d", "e", "l", " ", "c", "o", "r", "a", "z", "o'", "n">>],
       [codigo |-> <<"Q", "3", "6", ".", "9">>, descripcion |-> <<"L", "a", "b", "i", "o", " ", "l", "e", "p", "o", "r", "i", "n", "o", ",", " ", "n", "o", " ", "e", "s", "p", "e", "c", "i", "f", "i", "c", "a", "d", "o">>],
       [codigo |-> <<"Q", "3", "5", ".", "9">>, descripcion |-> <<"F", "i", "s", "u", "r", "a", " ", "d", "e", "l", " ", "p", "a", "l", "a", "d", "a", "r", ",", " ", "n", "o", " ", "e", "s", "p", "e", "c", "i", "f", "i", "c", "a", "d", "a">>],
       [codigo |-> <<"Q", "6", "5", ".", "9">>, descripcion |-> <<"L", "u", "x", "a", "c", "i", "o'", "n", " ", "c", "o", "n", "g", "e'", "n", "i", "t", "a", " ", "d", "e", " ", "c", "a", "d", "e", "r", "a">>],
       [codigo |-> <<"F", "8", "4", ".", "0">>, descripcion |-> <<"A", "u", "t", "i", "s", "m", "o", " ", "i", "n", "f", "a", "n", "t", "i", "l">>],
       [codigo |-> <<"F", "9", "0", ".", "9">>, descripcion |-> <<"T", "r", "a", "s", "t", "o", "r", "n", "o", " ", "h", "i", "p", "e", "r", "c", "i", "n", "e'", "t", "i", "c", "o", ",", " ", "n", "o", " ", "e", "s", "p", "e", "c", "i", "f", "i", "c", "a", "d", "o">>],
       [codigo |-> <<"F", "3", "2", ".", "9">>, descripcion |-> <<"E", "p", "i", "s", "o", "d", "i", "o", " ", "d", "e", "p", "r", "e", "s", "i", "v", "o", ",", " ", "n", "o", " ", "e", "s", "p", "e", "c", "i", "f", "i", "c", "a", "d", "o">>],
       [codigo |-> <<"F", "4", "1", ".", "9">>, descripcion |-> <<"T", "r", "a", "s", "t", "o", "r", "n", "o", " ", "d", "e", " ", "a", "n", "s", "i", "e", "d", "a", "d", ",", " ", "n", "o", " ", "e", "s", "p", "e", "c", "i", "f", "i", "c", "a", "d", "o">>],
       [codigo |-> <<"A", "0", "0">>, descripcion |-> <<"C", "o'", "l", "e", "r", "a">>],
       [codigo |-> <<"A", "0", "1", ".", "0">>, descripcion |-> <<"F", "i", "e", "b", "r", "e", " ", "t", "i", "f", "o", "i", "d", "e", "a">>],
       [codigo |-> <<"A", "0", "2", ".", "0">>, descripcion |-> <<"E", "n", "t", "e", "r", "i", "t", "i", "s", " ", "d", "e", "b", "i", "d", "a", " ", "a", " ", "S", "a", "l", "m", "o", "n", "e", "l", "l", "a">>],
       [codigo |-> <<"A", "0", "4", ".", "9">>, descripcion |-> <<"O", "t", "r", "a", "s", " ", "i", "n", "f", "e", "c", "c", "i", "o", "n", "e", "s", " ", "i", "n", "t", "e", "s", "t", "i", "n", "a", "l", "e", "s", " ", "b", "a", "c", "t", "e", "r", "i", "a", "n", "a", "s">>],
       [codigo |-> <<"A", "0", "8", ".", "4">>, descripcion |-> <<"G", "a", "s", "t", "r", "o", "e", "n", "t", "e", "r", "i", "t", "i", "s", " ", "d", "e", "b", "i", "d", "a", " ", "a", " ", "v", "i", "r", "u", "s", " ", "(", "n", "o", " ", "e", "s", "p", "e", "c", "i", "f", "i", "c", "a", "d", "a", ")">>],
       [codigo |-> <<"A", "0", "9">>, descripcion |-> <<"D", "i", "a", "r", "r", "e", "a", " ", "y", " ", "g", "a", "s", "t", "r", "o", "e", "n", "t", "e", "r", "i", "t", "i", "s", " ", "d", "e", " ", "p", "r", "e", "s", "u", "n", "t", "o", " ", "o", "r", "i", "g", "e", "n", " ", "i", "n", "f", "e", "c", "c", "i", "o", "s", "o">>],
       [codigo |-> <<"A", "1", "7", ".", "8", "1">>, descripcion |-> <<"T", "u", "b", "e", "r", "c", "u", "l", "o", "s", "i", "s", " ", "d", "e", "l", " ", "s", "i", "s", "t", "e", "m", "a", " ", "n", "e", "r", "v", "i", "o", "s", "o", " ", "c", "o", "n", " ", "a", "b", "s", "c", "e", "s", "o", " ", "c", "e", "r", "e", "b", "r", "a", "l", " ", "o", " ", "m", "e", "d", "u", "l", "a", "r">>],
       [codigo |-> <<"A", "3", "3">>, descripcion |-> <<"T", "e'", "t", "a", "n", "o", "s", " ", "n", "e", "o", "n", "a", "t", "a", "l">>],
       [codigo |-> <<"A", "3", "7">>, descripcion |-> <<"T", "o", "s", " ", "f", "e", "r", "i", "n", "a">>],
       [codigo |-> <<"A", "3", "8">>, descripcion |-> <<"E", "s", "c", "a", "r", "l", "a", "t", "i", "n", "a">>],
       [codigo |-> <<"A", "5", "0">>, descripcion |-> <<"S", "i'", "f", "i", "l", "i", "s", " ", "c", "o", "n", "g", "e'", "n", "i", "t", "a">>],
       [codigo |-> <<"B", "0", "1">>, descripcion |-> <<"V", "a", "r", "i", "c", "e", "l", "a">>],
       [codigo |-> <<"B", "0", "8", ".", "4">>, descripcion |-> <<"E", "n", "f", "e", "r", "m", "e", "d", "a", "d", " ", "d", "e", " ", "b", "o", "c", "a", ",", " ", "m", "a", "n", "o", " ", "y", " ", "p", "i", "e">>],
       [codigo |-> <<"D", "6", "4", ".", "9">>, descripcion |-> <<"A", "n", "e", "m", "i", "a", ",", " ", "n", "o", " ", "e", "s", "p", "e", "c", "i", "f", "i", "c", "a", "d", "a">>],
       [codigo |-> <<"D", "6", "1", ".", "0", "1">>, descripcion |-> <<"A", "n", "e", "m", "i", "a", " ", "a", "p", "l", "a'", "s", "i", "c", "a", " ", "c", "o", "n", "g", "e'", "n", "i", "t", "a">>],
       [codigo |-> <<"E", "6", "6", ".", "8", "1", "1">>, descripcion |-> <<"O", "b", "e", "s", "i", "d", "a", "d", " ", "c", "l", "a", "s", "e", " ", "1">>],
       [codigo |-> <<"E", "6", "6", ".", "8", "1", "2">>, descripcion |-> <<"O", "b", "e", "s", "i", "d", "a", "d", " ", "c", "l", "a", "s", "e", " ", "2">>],
       [codigo |-> <<"E", "6", "6", ".", "8", "1", "3">>, descripcion |-> <<"O", "b", "e", "s", "i", "d", "a", "d", " ", "c", "l", "a", "s", "e", " ", "3">>],
       [codigo |-> <<"E", "7", "0", ".", "0">>, descripcion |-> <<"F", "e", "n", "i", "l", "c", "e", "t", "o", "n", "u", "r", "i", "a", " ", "c", "l", "a'", "s", "i", "c", "a">>],
       [codigo |-> <<"E", "7", "1", ".", "0">>, descripcion |-> <<"E", "n", "f", "e", "r", "m", "e", "d", "a", "d", " ", "d", "e", "l", " ", "j", "a", "r", "a", "b", "e", " ", "d", "e", " ", "a", "r", "c", "e", " ", "(", "l", "e", "u", "c", "i", "n", "o", "s", "i", "s", ")">>],
       [codigo |-> <<"E", "7", "2", ".", "2">>, descripcion |-> <<"T", "r", "a", "s", "t", "o", "r", "n", "o", "s", " ", "d", "e", "l", " ", "c", "i", "c", "l", "o", " ", "d", "e", " ", "l", "a", " ", "u", "r", "e", "a", " ", "(", "n", "o", " ", "e", "s", "p", "e", "c", "i", "f", "i", "c", "a", "d", "o", ")">>],
       [codigo |-> <<"E", "7", "5", ".", "2">>, descripcion |-> <<"E", "n", "f", "e", "r", "m", "e", "d", "a", "d", " ", "d", "e", " ", "G", "a", "u", "c", "h", "e", "r", " ", "y", " ", "N", "i", "e", "m", "a", "n", "n", "-", "P", "i", "c", "k">>],
       [codigo |-> <<"E", "8", "3", ".", "0">>, descripcion |-> <<"E", "n", "f", "e", "r", "m", "e", "d", "a", "d", " ", "d", "e", " ", "W", "i", "l", "s", "o", "n">>],
       [codigo |-> <<"E", "8", "8", ".", "0">>, descripcion |-> <<"T", "r", "i", "m", "e", "t", "i", "l", "a", "m", "i", "n", "u", "r", "i", "a">>],
       [codigo |-> <<"F", "4", "1", ".", "0">>, descripcion |-> <<"T", "r", "a", "s", "t", "o", "r", "n", "o", " ", "d", "e", " ", "p", "a'", "n", "i", "c", "o">>],
       [codigo |-> <<"F", "4", "2">>, descripcion |-> <<"T", "r", "a", "s", "t", "o", "r", "n", "o", " ", "o", "b", "s", "e", "s", "i", "v", "o", "-", "c", "o", "m", "p", "u", "l", "s", "i", "v", "o">>],
       [codigo |-> <<"F", "5", "0", ".", "0">>, descripcion |-> <<"A", "n", "o", "r", "e", "x", "i", "a", " ", "n", "e", "r", "v", "i", "o", "s", "a">>],
       [codigo |-> <<"F", "5", "0", ".", "2">>, descripcion |-> <<"B", "u", "l", "i", "m", "i", "a", " ", "n", "e", "r", "v", "i", "o", "s", "a">>],
       [codigo |-> <<"F", "6", "4", ".", "2">>, descripcion |-> <<"T", "r", "a", "s", "t", "o", "r", "n", "o", " ", "d", "e", " ", "i", "d", "e", "n", "t", "i", "d", "a", "d", " ", "d", "e", " ", "g", "e'", "n", "e", "r", "o", " ", "e", "n", " ", "n", "i", "n~", "o", "s">>],
       [codigo |-> <<"F", "8", "0", ".", "3">>, descripcion |-> <<"S", "i'", "n", "d", "r", "o", "m", "e", " ", "d", "e", " ", "L", "a", "n", "d", "a", "u", "-", "K", "l", "e", "f", "f", "n", "e", "r", " ", "o", " ", "a", "f", "a", "s", "i", "a", " ", "e", "p", "i", "l", "e'", "p", "t", "i", "c", "a", " ", "a", "d", "q", "u", "i", "r", "i", "d", "a">>],
       [codigo |-> <<"F", "8", "1", ".", "0">>, descripcion |-> <<"T", "r", "a", "s", "t", "o", "r", "n", "o", " ", "e", "s", "p", "e", "c", "i'", "f", "i", "c", "o", " ", "d", "e", " ", "l", "a", " ", "l", "e", "c", "t", "u", "r", "a", " ", "(", "d", "i", "s", "l", "e", "x", "i", "a", ")">>],
       [codigo |-> <<"F", "8", "1", ".", "2">>, descripcion |-> <<"T", "r", "a", "s", "t", "o", "r", "n", "o", "s", " ", "e", "s", "p", "e", "c", "i'", "f", "i", "c", "o", "s", " ", "d", "e", " ", "l", "a", "s", " ", "h", "a", "b", "i", "l", "i", "d", "a", "d", "e", "s", " ", "a", "r", "i", "t", "m", "e'", "t", "i", "c", "a", "s", " ", "(", "a", "c", "a", "l", "c", "u", "l", "i", "a", ")">>],
       [codigo |-> <<"F", "8", "4", ".", "2">>, descripcion |-> <<"S", "i'", "n", "d", "r", "o", "m", "e", " ", "d", "e", " ", "R", "e", "t", "t">>],
       [codigo |-> <<"F", "8", "4", ".", "5">>, descripcion |-> <<"S", "i'", "n", "d", "r", "o", "m", "e", " ", "d", "e", " ", "A", "s", "p", "e", "r", "g", "e", "r">>],
       [codigo |-> <<"F", "9", "0", ".", "0">>, descripcion |-> <<"T", "r", "a", "s", "t", "o", "r", "n", "o", " ", "p", "o", "r", " ", "d", "e'", "f", "i", "c", "i", "t", " ", "d", "e", " ", "a", "t", "e", "n", "c", "i", "o'", "n", " ", "c", "o", "n", " ", "h", "i", "p", "e", "r", "a", "c", "t", "i", "v", "i", "d", "a", "d", ",", " ", "t", "i", "p", "o", " ", "d", "e", "s", "a", "t", "e", "n", "t", "o">>],
       [codigo |-> <<"F", "9", "0", ".", "1">>, descripcion |-> <<"T", "r", "a", "s", "t", "o", "r", "n", "o", " ", "p", "o", "r", " ", "d", "e'", "f", "i", "c", "i", "t", " ", "d", "e", " ", "a", "t", "e", "n", "c", "i", "o'", "n", " ", "c", "o", "n", " ", "h", "i", "p", "e", "r", "a", "c", "t", "i", "v", "i", "d", "a", "d", ",", " ", "t", "i", "p", "o", " ", "h", "i", "p", "e", "r", "a", "c", "t", "i", "v", "o", "-", "i", "m", "p", "u", "l", "s", "i", "v", "o">>],
       [codigo |-> <<"F", "9", "0", ".", "2">>, descripcion |-> <<"T", "r", "a", "s", "t", "o", "r", "n", "o", " ", "p", "o", "r", " ", "d", "e'", "f", "i", "c", "i", "t", " ", "d", "e", " ", "a", "t", "e", "n", "c", "i", "o'", "n", " ", "c", "o", "n", " ", "h", "i", "p", "e", "r", "a", "c", "t", "i", "v", "i", "d", "a", "d", " ", "(", "T", "D", "A", "H", ")", ",", " ", "t", "i", "p", "o", " ", "c", "o", "m", "b", "i", "n", "a", "d", "o">>],
       [codigo |-> <<"F", "9", "1", ".", "0">>, descripcion |-> <<"T", "r", "a", "s", "t", "o", "r", "n", "o", " ", "d", "e", " ", "c", "o", "n", "d", "u", "c", "t", "a", " ", "l", "i", "m", "i", "t", "a", "d", "o", " ", "a", "l", " ", "c", "o", "n", "t", "e", "x", "t", "o", " ", "f", "a", "m", "i", "l", "i", "a", "r">>],
       [codigo |-> <<"F", "9", "1", ".", "3">>, descripcion |-> <<"T", "r", "a", "s", "t", "o", "r", "n", "o", " ", "n", "e", "g", "a", "t", "i", "v", "i", "s", "t", "a", " ", "d", "e", "s", "a", "f", "i", "a", "n", "t", "e">>],
       [codigo |-> <<"F", "9", "3", ".", "0">>, descripcion |-> <<"T", "r", "a", "s", "t", "o", "r", "n", "o", " ", "d", "e", " ", "a", "n", "s", "i", "e", "d", "a", "d", " ", "p", "o", "r", " ", "s", "e", "p", "a", "r", "a", "c", "i", "o'", "n", " ", "e", "n", " ", "l", "a", " ", "i", "n", "f", "a", "n", "c", "i", "a">>],
       [codigo |-> <<"F", "9", "3", ".", "8">>, descripcion |-> <<"T", "r", "a", "s", "t", "o", "r", "n", "o", " ", "d", "e", " ", "a", "n", "s", "i", "e", "d", "a", "d", " ", "y", " ", "m", "i", "e", "d", "o", " ", "d", "e", " ", "l", "a", " ", "i", "n", "f", "a", "n", "c", "i", "a", " ", "N", "C", "O", "C">>],
       [codigo |-> <<"F", "9", "4", ".", "0">>, descripcion |-> <<"M", "u", "t", "i", "s", "m", "o", " ", "s", "e", "l", "e", "c", "t", "i", "v", "o">>],
       [codigo |-> <<"F", "9", "5", ".", "0">>, descripcion |-> <<"T", "r", "a", "s", "t", "o", "r", "n", "o", " ", "d", "e", " ", "t", "i", "c", "s", " ", "t", "r", "a", "n", "s", "i", "t", "o", "r", "i", "o">>],
       [codigo |-> <<"G", "7", "1", ".", "0">>, descripcion |-> <<"D", "i", "s", "t", "r", "o", "f", "i", "a", " ", "m", "u", "s", "c", "u", "l", "a", "r", " ", "(", "D", "u", "c", "h", "e", "n", "n", "e", ",", " ", "B", "e", "c", "k", "e", "r", ")">>],
       [codigo |-> <<"G", "7", "1", ".", "3">>, descripcion |-> <<"M", "i", "o", "p", "a", "t", "i'", "a", " ", "m", "i", "t", "o", "c", "o", "n", "d", "r", "i", "a", "l">>],
       [codigo |-> <<"H", "1", "0", ".", "9">>, descripcion |-> <<"C", "o", "n", "j", "u", "n", "t", "i", "v", "i", "t", "i", "s", ",", " ", "n", "o", " ", "e", "s", "p", "e", "c", "i", "f", "i", "c", "a", "d", "a">>],
       [codigo |-> <<"H", "6", "6", ".", "0", "1", "2">>, descripcion |-> <<"O", "t", "i", "t", "i", "s", " ", "m", "e", "d", "i", "a", " ", "s", "u", "p", "u", "r", "a", "t", "i", "v", "a", " ", "a", "g", "u", "d", "a", " ", "c", "o", "n", " ", "r", "o", "t", "u", "r", "a", " ", "e", "s", "p", "o", "n", "t", "a'", "n", "e", "a", " ", "d", "e", " ", "t", "i'", "m", "p", "a", "n", "o">>],
       [codigo |-> <<"J", "0", "5", ".", "0">>, descripcion |-> <<"C", "r", "u", "p">>],
       [codigo |-> <<"J", "2", "1", ".", "0">>, descripcion |-> <<"B", "r", "o", "n", "q", "u", "i", "o", "l", "i", "t", "i", "s", " ", "a", "g", "u", "d", "a", ",", " ", "d", "e", "b", "i", "d", "a", " ", "a", " ", "v", "i", "r", "u", "s", " ", "s", "i", "n", "c", "i", "t", "i", "a", "l", " ", "r", "e", "s", "p", "i", "r", "a", "t", "o", "r", "i", "o", " ", "(", "V", "S", "R", ")">>],
       [codigo |-> <<"J", "2", "1", ".", "9">>, descripcion |-> <<"B", "r", "o", "n", "q", "u", "i", "o", "l", "i", "t", "i", "s", " ", "a", "g", "u", "d", "a", ",", " ", "n", "o", " ", "e", "s", "p", "e", "c", "i", "f", "i", "c", "a", "d", "a">>],
       [codigo |-> <<"J", "3", "8", ".", "5">>, descripcion |-> <<"L", "a", "r", "i", "n", "g", "i", "s", "m", "o", " ", "e", "s", "t", "r", "i", "d", "u", "l", "o", "s", "o", " ", "(", "c", "r", "u", "p", " ", "e", "s", "p", "a", "s", "m", "o'", "d", "i", "c", "o", ")">>],
       [codigo |-> <<"K", "9", "0", ".", "0">>, descripcion |-> <<"E", "n", "f", "e", "r", "m", "e", "d", "a", "d", " ", "c", "e", "l", "i'", "a", "c", "a">>],
       [codigo |-> <<"P", "0", "5", ".", "0">>, descripcion |-> <<"P", "e", "q", "u", "e", "n~", "o", " ", "p", "a", "r", "a", " ", "l", "a", " ", "e", "d", "a", "d", " ", "g", "e", "s", "t", "a", "c", "i", "o", "n", "a", "l", " ", "(", "P", "E", "G", ")", " ", "a", "s", "i", "m", "e'", "t", "r", "i", "c", "o">>],
       [codigo |-> <<"P", "2", "2", ".", "0">>, descripcion |-> <<"S", "i'", "n", "d", "r", "o", "m", "e", " ", "d", "e", " ", "d", "i", "f", "i", "c", "u", "l", "t", "a", "d", " ", "r", "e", "s", "p", "i", "r", "a", "t", "o", "r", "i", "a", " ", "d", "e", "l", " ", "r", "e", "c", "i", "e'", "n", " ", "n", "a", "c", "i", "d", "o">>],
       [codigo |-> <<"P", "8", "0", ".", "0">>, descripcion |-> <<"H", "i", "p", "o", "t", "e", "r", "m", "i", "a", " ", "s", "e", "v", "e", "r", "a", " ", "d", "e", "l", " ", "r", "e", "c", "i", "e'", "n", " ", "n", "a", "c", "i", "d", "o">>],
       [codigo |-> <<"P", "9", "6", ".", "1">>, descripcion |-> <<"S", "i'", "n", "d", "r", "o", "m", "e", " ", "d", "e", " ", "d", "e", "p", "r", "i", "v", "a", "c", "i", "o'", "n", " ", "p", "o", "r", " ", "d", "r", "o", "g", "a", "s", " ", "i", "l", "i'", "c", "i", "t", "a", "s">>],
       [codigo |-> <<"Q", "0", "0", ".", "0">>, descripcion |-> <<"A", "n", "e", "n", "c", "e", "f", "a", "l", "i", "a">>],
       [codigo |-> <<"Q", "2", "4", ".", "0">>, descripcion |-> <<"D", "e", "x", "t", "r", "o", "c", "a", "r", "d", "i", "a">>],
       [codigo |-> <<"Q", "6", "5", ".", "0">>, descripcion |-> <<"L", "u", "x", "a", "c", "i", "o'", "n", " ", "c", "o", "n", "g", "e'", "n", "i", "t", "a", " ", "d", "e", " ", "l", "a", " ", "c", "a", "d", "e", "r", "a", ",", " ", "u", "n", "i", "l", "a", "t", "e", "r", "a", "l">>],
       [codigo |-> <<"Q", "6", "6", ".", "0">>, descripcion |-> <<"P", "i", "e", " ", "e", "q", "u", "i", "n", "o", "v", "a", "r", "o">>],
       [codigo |-> <<"Q", "9", "0", ".", "0">>, descripcion |-> <<"S", "i'", "n", "d", "r", "o", "m", "e", " ", "d", "e", " ", "D", "o", "w", "n", ",", " ", "c", "a", "r", "i", "o", "t", "i", "p", "o", " ", "r", "e", "g", "u", "l", "a", "r">>],
       [codigo |-> <<"Z", "0", "5", ".", "0">>, descripcion |-> <<"O", "b", "s", "e", "r", "v", "a", "c", "i", "o'", "n", " ", "p", "o", "r", " ", "s", "o", "s", "p", "e", "c", "h", "a", " ", "d", "e", " ", "a", "f", "e", "c", "c", "i", "o'", "n", " ", "c", "a", "r", "d", "i", "a", "c", "a", " ", "e", "n", " ", "r", "e", "c", "i", "e'", "n", " ", "n", "a", "c", "i", "d", "o">>],
       [codigo |-> <<"Z", "3", "8", ".", "0", "0">>, descripcion |-> <<"R", "e", "c", "i", "e'", "n", " ", "n", "a", "c", "i", "d", "o", " ", "v", "i", "v", "o", " ", "u'", "n", "i", "c", "o", ",", " ", "p", "a", "r", "t", "o", " ", "v", "a", "g", "i", "n", "a", "l">>],
       [codigo |-> <<"Z", "6", "8", ".", "5", "4">>, descripcion |-> <<"I", "M", "C", " ", "p", "e", "d", "i", "a'", "t", "r", "i", "c", "o", " ", "e", "n", " ", "p", "e", "r", "c", "e", "n", "t", "i", "l", " ", "9", "5", " ", "o", " ", "s", "u", "p", "e", "r", "i", "o", "r", " ", "p", "a", "r", "a", " ", "o", "b", "e", "s", "i", "d", "a", "d", " ", "c", "l", "a", "s", "e", " ", "1">>] >>

\* db.cie10_codes.find_one({"codigo": codigo}): the places of the matches
ConCodigo(codigo) == {i \in DOMAIN cie10_codes : cie10_codes[i].codigo = codigo}

\* db.cie10_codes.find({"descripcion": {"$regex": palabra, "$options": "i"}}),
\* for a word of letters
ConDescripcion(palabra) ==
    SelectSeq(cie10_codes, LAMBDA c : In(lower(palabra), lower(c.descripcion)))

\* the answer with the classification of the model or of the rules
Clasificado(resultado_ai) ==
    [codigo |-> resultado_ai.codigo,
     descripcion |-> IF ConCodigo(resultado_ai.codigo) # {} /\ ~bool(resultado_ai.descripcion)
                     THEN cie10_codes[Primera(ConCodigo(resultado_ai.codigo))].descripcion
                     ELSE resultado_ai.descripcion,
     capitulo |-> obtener_capitulo_cie10(resultado_ai.codigo),
     sugerencia |-> TRUE,
     confianza |-> resultado_ai.confianza,
     metodo |-> resultado_ai.metodo,
     mensaje |-> IF resultado_ai.metodo = "ai" THEN "Clasificacion automatica con IA"
                 ELSE "Clasificacion automatica por reglas"]

SinClasificar ==
    [codigo |-> None, descripcion |-> None, capitulo |-> "None", sugerencia |-> FALSE,
     confianza |-> "baja", metodo |-> "ninguno",
     mensaje |-> "No se encontro clasificacion automatica. Busque manualmente en la base CIE-10."]

\* the search of the words of more than 4 characters in the descriptions
RECURSIVE BusquedaSimilar(_)
BusquedaSimilar(palabras) ==
    IF palabras = <<>> THEN SinClasificar
    ELSE IF Len(Head(palabras)) > 4 /\ ConDescripcion(Head(palabras)) # <<>>
         THEN [codigo |-> ConDescripcion(Head(palabras))[1].codigo,
               descripcion |-> ConDescripcion(Head(palabras))[1].descripcion,
               capitulo |-> obtener_capitulo_cie10(ConDescripcion(Head(palabras))[1].codigo),
               sugerencia |-> TRUE, confianza |-> "media", metodo |-> "busqueda_similar",
               alternativas |-> Tail(Primeros(ConDescripcion(Head(palabras)), 4)),
               mensaje |-> "Encontrado por busqueda similar en base de datos"]
    ELSE BusquedaSimilar(Tail(palabras))

\* the body of the answer of POST /cie10/clasificar
ClasificarDiagnostico(diagnostico, ia) ==
    IF bool(clasificar_cie10_inteligente_con_ai(diagnostico, ia).codigo)
    THEN Clasificado(clasificar_cie10_inteligente_con_ai(diagnostico, ia))
    ELSE BusquedaSimilar(split(lower(diagnostico)))

\* the diagnoses tried: every keyword of the table, and others
PalabrasClave == {clasificaciones[i].palabra : i \in DOMAIN clasificaciones}

OtrosDiagnosticos ==
    {<<>>,
     <<"F", "i", "e", "b", "r", "e">>,
     <<"F", "I", "E", "B", "R", "E">>,
     <<"O", "t", "i", "t", "i", "s", " ", "E", "x", "t", "e", "r", "n", "a">>,
     <<"T", "o", "s", " ", "F", "e", "r", "i", "n", "a">>,
     <<"t", "e", "s", "t">>,
     <<"d", "o", "l", "o", "r">>,
     <<"d", "o", "l", "o", "r", "e", "s">>,
     <<"x", "y", "z">>,
     <<"g", "r", "i", "p", "a", " ", "f", "u", "e", "r", "t", "e">>,
     <<"n", "o", " ", "e", "s", "p", "e", "c", "i", "f", "i", "c", "a", "d", "a">>,
     <<"n", "i", "n~", "o", " ", "c", "o", "n", " ", "f", "i", "e", "b", "r", "e", " ", "a", "l", "t", "a">>,
     <<"c", "e", "f", "a", "l", "e", "a", "s", " ", "i", "n", "t", "e", "n", "s", "a", "s">>,
     <<"D", "i", "a", "r", "r", "e", "a", " ", "y", " ", "g", "a", "s", "t", "r", "o", "e", "n", "t", "e", "r", "i", "t", "i", "s", " ", "d", "e", " ", "p", "r", "e", "s", "u", "n", "t", "o", " ", "o", "r", "i", "g", "e", "n", " ", "i", "n", "f", "e", "c", "c", "i", "o", "s", "o">>,
     <<" ", " ", "a", "s", "m", "a", " ", " ">>}

Diagnosticos == PalabrasClave \cup OtrosDiagnosticos

RespuestasIA ==
    {<<"R", "5", "0", ".", "9", "|", "F", "i", "e", "b", "r", "e", ",", " ", "n", "o", " ", "e", "s", "p", "e", "c", "i", "f", "i", "c", "a", "d", "a">>,
     <<" ", "H", "6", "6", ".", "9", " ", "|", " ", "O", "t", "i", "t", "i", "s", " ", "m", "e", "d", "i", "a", ",", " ", "n", "o", " ", "e", "s", "p", "e", "c", "i", "f", "i", "c", "a", "d", "a", " ">>,
     <<"N", "O", "N", "E", "|", "N", "o", " ", "c", "l", "a", "s", "i", "f", "i", "c", "a", "b", "l", "e">>,
     <<"n", "o", " ", "l", "o", " ", "s", "e">>,
     <<"r", "5", "0", "|", "f", "i", "e", "b", "r", "e">>,
     <<"A", "0", "9", "|", "D", "i", "a", "r", "r", "e", "a">>}

IAs ==
    {[clave |-> FALSE, respuesta |-> None]} \cup {[clave |-> TRUE, respuesta |-> r] : r \in {Excepcion, None} \cup RespuestasIA}

\* a call of clasificar_cie10_inteligente, or a request to
\* POST /cie10/clasificar, is about to be made
InitCIE10 ==
    /\ medicamentos = <<>> /\ ventas = <<>> /\ alertas_farmacia = <<>>
    /\ pacientes = <<>> /\ citas = <<>> /\ uuids = 0
    /\ calc_prev = Ninguna /\ calc_last = Ninguna /\ tareas = <<>>
    /\ resp \in {[op |-> "clasificar_cie10_inteligente", pc |-> "pending", diagnostico |-> d] : d \in Diagnosticos} \cup {[op |-> "clasificar_diagnostico_inteligente", pc |-> "pending", diagnostico |-> d, ia |-> ia] : d \in Diagnosticos, ia \in IAs}

ClasificarPorReglas ==
    /\ resp.op = "clasificar_cie10_inteligente" /\ resp.pc = "pending"
    /\ resp' = [op |-> "clasificar_cie10_inteligente", pc |-> "done",
                diagnostico |-> resp.diagnostico,
                out |-> clasificar_cie10_inteligente(resp.diagnostico)]
    /\ UNCHANGED <<colecciones, uuids, calc_prev, calc_last, tareas>>

clasificar_diagnostico_inteligente ==
    /\ resp.op = "clasificar_diagnostico_inteligente" /\ resp.pc = "pending"
    /\ \/ Rechazada("clasificar_diagnostico_inteligente")
       \/ \E token \in Tokens :
            /\ verify_token(token)
            /\ resp' = [token |-> token, op |-> "clasificar_diagnostico_inteligente",
                        pc |-> "done", diagnostico |-> resp.diagnostico, ia |-> resp.ia,
                        status |-> "200",
                        body |-> ClasificarDiagnostico(resp.diagnostico, resp.ia)]
            /\ UNCHANGED <<colecciones, uuids, calc_prev, calc_last, tareas>>

NextCIE10 == ClasificarPorReglas \/ clasificar_diagnostico_inteligente

SpecCIE10 == InitCIE10 /\ [][NextCIE10]_vars

(***************************************************************************)
(* Requests in flight.  The handlers are coroutines of one event loop: a   *)
(* handler runs alone from one await of a database operation to the next,  *)
(* and between two of its operations those of other requests can run.  A   *)
(* step is one database operation followed by the handler's code up to its *)
(* next one.  verify_token has accepted the token before the handler runs. *)
(***************************************************************************)
\* how many requests are in flight together
MaxTareas == 2

\* the stock of the medication when the requests arrive
StockConcurrente == 2

\* the medication the requests are about, as crear_medicamento stores it
MedicamentoConcurrente ==
    Medicamento(1, StockConcurrente, 1, Args(R(100), R(15), <<"1", "0", "+", "3">>, R(10)),
                calcular_precios_farmacia_detallado(R(100), R(15), <<"1", "0", "+", "3">>,
                                                    R(10)).ret)

\* the requests tried: quick sales, sales of one item, and a restock
Peticiones ==
    {[op |-> "crear_venta_rapida", medicamento_id |-> 1, cantidad |-> c, precio_venta |-> R(150), descuento_aplicado |-> R(10)] : c \in Cantidades}
    \cup {[op |-> "crear_venta", items |-> <<Item(1, c, 0)>>, descuento_total |-> R(0)] : c \in Cantidades}
    \cup {[op |-> "aplicar_restock", medicamento_id |-> 1, stock_inicial |-> 1, a |-> Args(R(50), R(0), <<"5", "+", "1">>, R(0))]}

InitConcurrente ==
    /\ medicamentos = <<MedicamentoConcurrente>>
    /\ ventas = <<>> /\ alertas_farmacia = <<>> /\ pacientes = <<>> /\ citas = <<>>
    /\ uuids = 1
    /\ resp = Ninguna /\ calc_prev = Ninguna /\ calc_last = Ninguna
    /\ tareas \in {[t \in 1..MaxTareas |-> [peticion |-> f[t], pc |-> "find"]] : f \in [1..MaxTareas -> Peticiones]}

\* the handler of request t raises or returns
Terminar(t, status, body) ==
    /\ tareas' = [tareas EXCEPT ![t] = [peticion |-> tareas[t].peticion, pc |-> "fin",
                                        status |-> status, body |-> body]]
    /\ resp' = [op |-> tareas[t].peticion.op, tarea |-> t, status |-> status, body |-> body]

\* the handler of request t reaches its next await, with its locals
Seguir(t, pc, locales) ==
    /\ tareas' = [tareas EXCEPT ![t] = [peticion |-> tareas[t].peticion, pc |-> pc,
                                        locales |-> locales]]
    /\ resp' = resp

\* crear_venta_rapida: find_one of the medication, the stock check on what
\* was read, and the Venta built from it
VentaRapidaFind ==
    \E t \in DOMAIN tareas :
    /\ tareas[t].peticion.op = "crear_venta_rapida" /\ tareas[t].pc = "find"
    /\ IF ~Existe(medicamentos, tareas[t].peticion.medicamento_id)
       THEN Terminar(t, "404", [detail |-> "Medicamento no encontrado"]) /\ UNCHANGED uuids
       ELSE IF medicamentos[tareas[t].peticion.medicamento_id].stock < tareas[t].peticion.cantidad
       THEN Terminar(t, "400", [detail |-> "Stock insuficiente"]) /\ UNCHANGED uuids
       ELSE /\ uuids' = uuids + 1
            /\ Seguir(t, "insert",
                   [medicamento |-> medicamentos[tareas[t].peticion.medicamento_id],
                    nueva_venta |-> VentaRapida(uuids + 1,
                        medicamentos[tareas[t].peticion.medicamento_id],
                        tareas[t].peticion.precio_venta, tareas[t].peticion.descuento_aplicado,
                        tareas[t].peticion.cantidad)])
    /\ UNCHANGED <<colecciones, calc_prev, calc_last>>

\* crear_venta_rapida: insert_one of the sale
VentaRapidaInsert ==
    \E t \in DOMAIN tareas :
    /\ tareas[t].peticion.op = "crear_venta_rapida" /\ tareas[t].pc = "insert"
    /\ ventas' = Append(ventas, tareas[t].locales.nueva_venta)
    /\ Seguir(t, "update", tareas[t].locales)
    /\ UNCHANGED <<medicamentos, alertas_farmacia, pacientes, citas, uuids, calc_prev, calc_last>>

\* the answer of crear_venta_rapida; new_stock is the stock read by
\* find_one less the quantity
VentaRapidaHecha(t) ==
    [success |-> TRUE,
     venta_id |-> tareas[t].locales.nueva_venta.id,
     total |-> tareas[t].locales.nueva_venta.total_venta,
     utilidad |-> tareas[t].locales.nueva_venta.utilidad_bruta,
     stock_restante |-> tareas[t].locales.medicamento.stock - tareas[t].peticion.cantidad]

\* crear_venta_rapida: update_one with $inc of the stock
VentaRapidaUpdate ==
    \E t \in DOMAIN tareas :
    /\ tareas[t].peticion.op = "crear_venta_rapida" /\ tareas[t].pc = "update"
    /\ medicamentos' = Incrementar(medicamentos, tareas[t].peticion.medicamento_id,
                                   tareas[t].peticion.cantidad)
    /\ IF tareas[t].locales.medicamento.stock - tareas[t].peticion.cantidad = 0
       THEN Seguir(t, "alerta", tareas[t].locales)
       ELSE Terminar(t, "200", VentaRapidaHecha(t))
    /\ UNCHANGED <<ventas, alertas_farmacia, pacientes, citas, uuids, calc_prev, calc_last>>

\* crear_venta_rapida: insert_one of the STOCK_AGOTADO alert
VentaRapidaAlerta ==
    \E t \in DOMAIN tareas :
    /\ tareas[t].peticion.op = "crear_venta_rapida" /\ tareas[t].pc = "alerta"
    /\ alertas_farmacia' = Append(alertas_farmacia, StockAgotado(tareas[t].locales.medicamento))
    /\ Terminar(t, "200", VentaRapidaHecha(t))
    /\ UNCHANGED <<medicamentos, ventas, pacientes, citas, uuids, calc_prev, calc_last>>

\* crear_venta between two awaits of its loop: item i is looked up and
\* checked in the medications read before the loop, and the loop ends, raises
\* or reaches the update_one of item i
VentaSiguienteItem(t, medicamentos_map, i, items_venta) ==
    IF i > Len(tareas[t].peticion.items)
    THEN /\ uuids' = uuids + 1
         /\ Seguir(t, "insert",
                [venta |-> Venta(uuids + 1, items_venta, tareas[t].peticion.descuento_total)])
    ELSE IF ~Existe(medicamentos_map, tareas[t].peticion.items[i].medicamento_id)
    THEN Terminar(t, "404", [detail |-> "Medicamento no encontrado"]) /\ UNCHANGED uuids
    ELSE IF medicamentos_map[tareas[t].peticion.items[i].medicamento_id].stock < tareas[t].peticion.items[i].cantidad
    THEN Terminar(t, "400", [detail |-> "Stock insuficiente"]) /\ UNCHANGED uuids
    ELSE /\ Seguir(t, "update",
                [medicamentos_map |-> medicamentos_map, i |-> i,
                 items_venta |-> Append(items_venta,
                     VentaItem(medicamentos_map[tareas[t].peticion.items[i].medicamento_id],
                               tareas[t].peticion.items[i]))])
         /\ UNCHANGED uuids

\* crear_venta: the find of the medications of the items
VentaFind ==
    \E t \in DOMAIN tareas :
    /\ tareas[t].peticion.op = "crear_venta" /\ tareas[t].pc = "find"
    /\ IF tareas[t].peticion.items = <<>>
       THEN Terminar(t, "400", [detail |-> "La venta debe incluir al menos un producto"]) /\ UNCHANGED uuids
       ELSE VentaSiguienteItem(t, medicamentos, 1, <<>>)
    /\ UNCHANGED <<colecciones, calc_prev, calc_last>>

\* crear_venta: the update_one with $inc of the stock of item i
VentaUpdate ==
    \E t \in DOMAIN tareas :
    /\ tareas[t].peticion.op = "crear_venta" /\ tareas[t].pc = "update"
    /\ medicamentos' = Incrementar(medicamentos,
                           tareas[t].peticion.items[tareas[t].locales.i].medicamento_id,
                           tareas[t].peticion.items[tareas[t].locales.i].cantidad)
    /\ VentaSiguienteItem(t, tareas[t].locales.medicamentos_map, tareas[t].locales.i + 1,
                          tareas[t].locales.items_venta)
    /\ UNCHANGED <<ventas, alertas_farmacia, pacientes, citas, calc_prev, calc_last>>

\* crear_venta: insert_one of the sale
VentaInsert ==
    \E t \in DOMAIN tareas :
    /\ tareas[t].peticion.op = "crear_venta" /\ tareas[t].pc = "insert"
    /\ ventas' = Append(ventas, tareas[t].locales.venta)
    /\ Terminar(t, "200", tareas[t].locales.venta)
    /\ UNCHANGED <<medicamentos, alertas_farmacia, pacientes, citas, uuids, calc_prev, calc_last>>

\* what aplicar_restock does with the prices it computed from what it read
RestockCalculado(t, existing, precios) ==
    IF precios.estado = "raise"
    THEN Terminar(t, "500", [detail |-> precios.exc])
    ELSE Seguir(t, "update", [existing |-> existing, precios |-> precios.ret])

\* aplicar_restock: find_one of the medication, and the new prices
RestockFind ==
    \E t \in DOMAIN tareas :
    /\ tareas[t].peticion.op = "aplicar_restock" /\ tareas[t].pc = "find"
    /\ IF ~Existe(medicamentos, tareas[t].peticion.medicamento_id)
       THEN Terminar(t, "404", [detail |-> "Medicamento no encontrado"])
       ELSE RestockCalculado(t, medicamentos[tareas[t].peticion.medicamento_id],
                calcular_precios_farmacia_detallado(tareas[t].peticion.a.costo_unitario,
                    tareas[t].peticion.a.impuesto, tareas[t].peticion.a.escala_compra,
                    Get(medicamentos[tareas[t].peticion.medicamento_id], "descuento_maximo", R(0))))
    /\ UNCHANGED <<colecciones, uuids, calc_prev, calc_last>>

\* the $set of aplicar_restock: the stock read by find_one plus stock_inicial
RestockSet(coleccion, existing, peticion, precios) ==
    [coleccion EXCEPT ![existing.id].stock = existing.stock + peticion.stock_inicial,
                      ![existing.id].costo_unitario = peticion.a.costo_unitario,
                      ![existing.id].impuesto = peticion.a.impuesto,
                      ![existing.id].escala_compra = peticion.a.escala_compra,
                      ![existing.id].costo_real = precios.costo_real,
                      ![existing.id].precio_base = precios.precio_base,
                      ![existing.id].precio_publico = precios.precio_publico,
                      ![existing.id].margen_utilidad = precios.margen_utilidad_final]

\* aplicar_restock: update_one with $set
RestockUpdate ==
    \E t \in DOMAIN tareas :
    /\ tareas[t].peticion.op = "aplicar_restock" /\ tareas[t].pc = "update"
    /\ medicamentos' = RestockSet(medicamentos, tareas[t].locales.existing, tareas[t].peticion,
                                  tareas[t].locales.precios)
    /\ Seguir(t, "delete", tareas[t].locales)
    /\ UNCHANGED <<ventas, alertas_farmacia, pacientes, citas, uuids, calc_prev, calc_last>>

\* aplicar_restock: delete_many of the STOCK_AGOTADO alerts
RestockDelete ==
    \E t \in DOMAIN tareas :
    /\ tareas[t].peticion.op = "aplicar_restock" /\ tareas[t].pc = "delete"
    /\ alertas_farmacia' = SinAlertas(alertas_farmacia, tareas[t].peticion.medicamento_id,
                                      "STOCK_AGOTADO")
    /\ Terminar(t, "200",
           [success |-> TRUE,
            nuevo_stock |-> tareas[t].locales.existing.stock + tareas[t].peticion.stock_inicial,
            nuevos_precios |-> tareas[t].locales.precios])
    /\ UNCHANGED <<medicamentos, ventas, pacientes, citas, uuids, calc_prev, calc_last>>

\* the event loop resumes one of the requests in flight
NextConcurrente ==
    \/ VentaRapidaFind
    \/ VentaRapidaInsert
    \/ VentaRapidaUpdate
    \/ VentaRapidaAlerta
    \/ VentaFind
    \/ VentaUpdate
    \/ VentaInsert
    \/ RestockFind
    \/ RestockUpdate
    \/ RestockDelete

SpecConcurrente == InitConcurrente /\ [][NextConcurrente]_vars

(***************************************************************************)
(* Vocabulary of the properties                                            *)
(***************************************************************************)
Hecha(inv) == inv.op \in {"funcion", "endpoint"} /\ inv.pc = "done"

\* the invocation ran the function, which returned a result
Devuelve(inv) ==
    /\ Hecha(inv)
    /\ \/ inv.op = "funcion" /\ inv.out.estado = "return"
       \/ inv.op = "endpoint" /\ inv.out.status = "200"

\* the returned dict of an invocation that returned one
Resultado(inv) == IF inv.op = "funcion" THEN inv.out.ret ELSE inv.out.body.resultado

CountChar(s, c) == Cardinality({i \in 1..Len(s) : s[i] = c})

\* 'N+B': one '+', a number on each side
BienFormada(e) ==
    /\ CountChar(e, "+") = 1
    /\ FloatOk(Split(e, "+")[1])
    /\ FloatOk(Split(e, "+")[2])

EscalaN(e) == FloatVal(Split(e, "+")[1])
EscalaB(e) == FloatVal(Split(e, "+")[2])

\* 'N+B' with both parts non-negative
EscalaNoNegativa(e) ==
    BienFormada(e) /\ RGe(EscalaN(e), Cero) /\ RGe(EscalaB(e), Cero)

\* absent, the sentinel, or 'N+B' with both parts non-negative
EscalaValida(e) == e = <<>> \/ e = sin_escala \/ EscalaNoNegativa(e)

EnRango(x) == RGe(x, Cero) /\ RLe(x, Cien)

\* costo_unitario > 0, impuesto in [0,100], descuento in [0,100)
NumerosValidos(a) ==
    /\ RGt(a.costo_unitario, Cero)
    /\ EnRango(a.impuesto)
    /\ EnRango(a.descuento) /\ a.descuento # Cien

EntradaValida(a) == NumerosValidos(a) /\ EscalaValida(a.escala_compra)

\* C1: for every valid input (costo_unitario > 0, impuesto in [0,100],
\* descuento in [0,100), scale absent, sentinel or 'buy+bonus' with both
\* parts non-negative) the function returns a result whose final margin is
\* at least 24.5 and whose margen_garantizado flag is true.
C1_MargenGarantizado ==
    (Hecha(calc_last) /\ calc_last.op = "funcion" /\ EntradaValida(calc_last.args))
        => /\ calc_last.out.estado = "return"
           /\ RGe(calc_last.out.locals.margen_final, Tolerancia)
           /\ calc_last.out.ret.margen_garantizado

\* C2: an authenticated calculator request with descuento = 100 is never
\* answered by a division by zero: it is rejected with a client error, or
\* it is answered with prices that are defined and not negative.
C2_Descuento100SinDivisionPorCero ==
    (Hecha(calc_last) /\ calc_last.op = "endpoint" /\ verify_token(calc_last.token)
        /\ calc_last.args.descuento = Cien)
        => \/ calc_last.out.status = "400"
           \/ /\ calc_last.out.status = "200"
              /\ RGe(calc_last.out.body.resultado.precio_publico, Cero)
              /\ RGe(calc_last.out.body.resultado.precio_final_cliente, Cero)

FueraDeRango(a) ==
    \/ RLe(a.costo_unitario, Cero)
    \/ ~EnRango(a.impuesto)
    \/ ~EnRango(a.descuento)

\* C3: the calculator endpoint answers an authenticated request with 400,
\* and with no price in the response, exactly when costo_unitario <= 0 or
\* impuesto is outside [0,100] or descuento is outside [0,100]; every other
\* authenticated request reaches the computation, whose outcome is the
\* response.
C3_ValidacionDeEntradas ==
    (Hecha(calc_last) /\ calc_last.op = "endpoint" /\ verify_token(calc_last.token))
        => /\ calc_last.out.status = "400" <=> FueraDeRango(calc_last.args)
           /\ calc_last.out.status = "400" => DOMAIN calc_last.out.body = {"detail"}
           /\ ~FueraDeRango(calc_last.args) =>
                  /\ calc_last.out.status \in {"200", "500"}
                  /\ calc_last.out.status = "200" =>
                         /\ "precio_publico" \in DOMAIN calc_last.out.body.resultado
                         /\ calc_last.out.body.resultado.costo_unitario_original
                                = round2(calc_last.args.costo_unitario)

C3_Witness ==
    /\ Hecha(calc_last) /\ calc_last.op = "endpoint" /\ verify_token(calc_last.token)
    /\ RGt(calc_last.args.costo_unitario, Cero)
    /\ EnRango(calc_last.args.descuento)
    /\ calc_last.args.impuesto = R(101)
    /\ calc_last.out.status = "400"

\* not the sentinel, and not two numbers joined by a single '+'
MalFormada(e) == e # sin_escala /\ ~BienFormada(e)

\* C4: for a purchase scale that is not the sentinel and does not parse as
\* two numbers joined by a single '+', the function does not fail on valid
\* numbers, and a returned result has unidades_pagadas = unidades_recibidas
\* = 1 and costo_real equal to costo_con_impuesto.
C4_EscalaMalFormada ==
    (Hecha(calc_last) /\ calc_last.op = "funcion"
        /\ MalFormada(calc_last.args.escala_compra))
        => /\ NumerosValidos(calc_last.args) => calc_last.out.estado = "return"
           /\ calc_last.out.estado = "return" =>
                  /\ calc_last.out.ret.unidades_pagadas = Uno
                  /\ calc_last.out.ret.unidades_recibidas = Uno
                  /\ calc_last.out.locals.costo_real = calc_last.out.locals.costo_con_impuesto
                  /\ calc_last.out.ret.costo_real = calc_last.out.ret.costo_con_impuesto

C4_Witness ==
    /\ Hecha(calc_last) /\ calc_last.op = "funcion"
    /\ calc_last.args.escala_compra = <<"1", "+", "2", "+", "3">>
    /\ calc_last.args.costo_unitario = R(100)
    /\ calc_last.out.estado = "return"
    /\ calc_last.out.ret.unidades_recibidas = Uno

TienePartNegativa(e) ==
    BienFormada(e) /\ (RLt(EscalaN(e), Cero) \/ RLt(EscalaB(e), Cero))

\* C5: a scale with a negative part is treated as no promotion: the
\* returned result has unidades_pagadas = unidades_recibidas = 1 and
\* costo_real = costo_con_impuesto.
C5_ParteNegativaSinPromocion ==
    (Hecha(calc_last) /\ calc_last.op = "funcion"
        /\ NumerosValidos(calc_last.args)
        /\ TienePartNegativa(calc_last.args.escala_compra)
        /\ calc_last.out.estado = "return")
        => /\ calc_last.out.ret.unidades_pagadas = Uno
           /\ calc_last.out.ret.unidades_recibidas = Uno
           /\ calc_last.out.locals.costo_real = calc_last.out.locals.costo_con_impuesto

\* C6 as stated: for a well-formed scale 'N+B' (both parts non-negative)
\* the result has unidades_pagadas = N, unidades_recibidas = N + B and
\* costo_real = costo_con_impuesto * N / (N + B).
C6_EscalaAplicada_original ==
    (Hecha(calc_last) /\ calc_last.op = "funcion"
        /\ NumerosValidos(calc_last.args)
        /\ EscalaNoNegativa(calc_last.args.escala_compra)
        /\ calc_last.out.estado = "return")
        => /\ calc_last.out.ret.unidades_pagadas = EscalaN(calc_last.args.escala_compra)
           /\ calc_last.out.ret.unidades_recibidas
                  = RAdd(EscalaN(calc_last.args.escala_compra),
                         EscalaB(calc_last.args.escala_compra))
           /\ RMul(calc_last.out.locals.costo_real,
                   RAdd(EscalaN(calc_last.args.escala_compra),
                        EscalaB(calc_last.args.escala_compra)))
                  = RMul(calc_last.out.locals.costo_con_impuesto,
                         EscalaN(calc_last.args.escala_compra))

\* C6 amended: for a well-formed scale 'N+B' with non-negative parts and
\* N + B > 0 a returned result has unidades_pagadas = N, unidades_recibidas
\* = N + B, costo_real = costo_con_impuesto * N / (N + B) before rounding
\* and that value rounded to 2 decimals in the returned dict; for '0+0',
\* the sentinel and an absent scale unidades_pagadas = unidades_recibidas
\* = 1 and costo_real = costo_con_impuesto.
C6_EscalaAplicada ==
    (Hecha(calc_last) /\ calc_last.op = "funcion" /\ calc_last.out.estado = "return")
        => /\ ( /\ EscalaNoNegativa(calc_last.args.escala_compra)
                /\ RGt(RAdd(EscalaN(calc_last.args.escala_compra),
                            EscalaB(calc_last.args.escala_compra)), Cero) )
              => /\ calc_last.out.ret.unidades_pagadas = EscalaN(calc_last.args.escala_compra)
                 /\ calc_last.out.ret.unidades_recibidas
                        = RAdd(EscalaN(calc_last.args.escala_compra),
                               EscalaB(calc_last.args.escala_compra))
                 /\ calc_last.out.locals.costo_real
                        = RDiv(RMul(calc_last.out.locals.costo_con_impuesto,
                                    EscalaN(calc_last.args.escala_compra)),
                               RAdd(EscalaN(calc_last.args.escala_compra),
                                    EscalaB(calc_last.args.escala_compra)))
                 /\ calc_last.out.ret.costo_real = round2(calc_last.out.locals.costo_real)
           /\ ( \/ calc_last.args.escala_compra \in {<<>>, sin_escala}
                \/ /\ EscalaNoNegativa(calc_last.args.escala_compra)
                   /\ RIsZero(RAdd(EscalaN(calc_last.args.escala_compra),
                                   EscalaB(calc_last.args.escala_compra))) )
              => /\ calc_last.out.ret.unidades_pagadas = Uno
                 /\ calc_last.out.ret.unidades_recibidas = Uno
                 /\ calc_last.out.locals.costo_real = calc_last.out.locals.costo_con_impuesto

C6_Witness ==
    /\ Hecha(calc_last) /\ calc_last.op = "funcion" /\ calc_last.out.estado = "return"
    /\ calc_last.args.escala_compra = <<"1", "0", "+", "3">>
    /\ calc_last.args.costo_unitario = R(100)
    /\ calc_last.args.impuesto = R(15)
    /\ calc_last.out.ret.unidades_pagadas = R(10)
    /\ calc_last.out.ret.unidades_recibidas = R(13)
    /\ calc_last.out.ret.costo_real = Rat(8846, 100)

DosLlamadas(menor, mayor) ==
    /\ Hecha(menor) /\ Hecha(mayor)
    /\ menor.op = "funcion" /\ mayor.op = "funcion"
    /\ menor.out.estado = "return" /\ mayor.out.estado = "return"
    /\ EntradaValida(menor.args) /\ EntradaValida(mayor.args)
    /\ menor.args.impuesto = mayor.args.impuesto
    /\ menor.args.escala_compra = mayor.args.escala_compra
    /\ menor.args.descuento = mayor.args.descuento
    /\ RLt(menor.args.costo_unitario, mayor.args.costo_unitario)

EstrictamenteMayor(menor, mayor) ==
    /\ RLt(menor.out.ret.costo_real, mayor.out.ret.costo_real)
    /\ RLt(menor.out.ret.precio_base, mayor.out.ret.precio_base)
    /\ RLt(menor.out.ret.precio_publico, mayor.out.ret.precio_publico)

NoMenor(menor, mayor) ==
    /\ RLe(menor.out.ret.costo_real, mayor.out.ret.costo_real)
    /\ RLe(menor.out.ret.precio_base, mayor.out.ret.precio_base)
    /\ RLe(menor.out.ret.precio_publico, mayor.out.ret.precio_publico)
    /\ RLt(menor.out.locals.costo_real, mayor.out.locals.costo_real)
    /\ RLt(menor.out.locals.precio_base, mayor.out.locals.precio_base)
    /\ RLt(menor.out.locals.precio_publico, mayor.out.locals.precio_publico)

MismaLlamada(a, b) ==
    /\ Hecha(a) /\ Hecha(b)
    /\ a.op = b.op /\ a.token = b.token /\ a.args = b.args

\* a step of the calculator endpoint; the response it leaves is that of
\* the endpoint or the 401 of verify_token
PasoDeCalculadora ==
    /\ resp'.op \in {"calcular_precios_detallado", "verify_token"}
    /\ CalcularPreciosDetallado

DistanciaPrecioBase(r) == RAbs(RSub(r.precio_base, RDiv(r.costo_real, Rat(3, 4))))

\* C10 as stated: in every calculator response the returned precio_base
\* differs from the returned costo_real / 0.75 by less than 0.01.
C10_PrecioBase_original ==
    (Devuelve(calc_last) /\ calc_last.op = "endpoint")
        => RLt(DistanciaPrecioBase(Resultado(calc_last)), Rat(1, 100))

\* C10 amended: in every calculator response the returned precio_base
\* differs from the returned costo_real / 0.75 by at most 0.01.
C10_PrecioBase ==
    Devuelve(calc_last) => RLe(DistanciaPrecioBase(Resultado(calc_last)), Rat(1, 100))

C10_Witness ==
    /\ Devuelve(calc_last) /\ calc_last.op = "endpoint"
    /\ EntradaValida(calc_last.args)
    /\ DistanciaPrecioBase(Resultado(calc_last)) = Rat(1, 100)

\* the worked example: costo_unitario 100, impuesto 15, scale '10+3',
\* descuento 10
Ejemplo == Args(R(100), R(15), <<"1", "0", "+", "3">>, R(10))

LlamadaEjemplo == Devuelve(calc_last) /\ calc_last.args = Ejemplo

EjemploSalvoPrecioPublico(r) ==
    /\ r.costo_con_impuesto = R(115)
    /\ r.costo_real = Rat(8846, 100)
    /\ r.precio_base = Rat(11795, 100)
    /\ r.precio_final_cliente = Rat(11795, 100)
    /\ r.margen_garantizado

\* C11 as stated: for costo_unitario = 100, impuesto = 15, scale '10+3'
\* and descuento = 10 the result is costo_con_impuesto 115.0, costo_real
\* 88.46, precio_base 117.95, precio_publico 131.06, precio_final_cliente
\* 117.95 and margen_garantizado true.
C11_Ejemplo_original ==
    LlamadaEjemplo
        => /\ EjemploSalvoPrecioPublico(Resultado(calc_last))
           /\ Resultado(calc_last).precio_publico = Rat(13106, 100)

\* C11 amended: the same input gives costo_con_impuesto 115.0, costo_real
\* 88.46, precio_base 117.95, precio_publico 131.05 (the unrounded
\* costo_real divided by 0.75 * 0.9, rounded), precio_final_cliente 117.95
\* and margen_garantizado true.
C11_Ejemplo ==
    LlamadaEjemplo
        => /\ EjemploSalvoPrecioPublico(Resultado(calc_last))
           /\ Resultado(calc_last).precio_publico = Rat(13105, 100)

C11_Witness ==
    /\ LlamadaEjemplo /\ calc_last.op = "endpoint"
    /\ Resultado(calc_last).unidades_recibidas = R(13)
    /\ Resultado(calc_last).margen_utilidad_final = R(25)

\* the latest request went to a protected endpoint with a bearer token
\* other than the one login issues
ConOtroToken(r) == r.op \notin {"ninguna", "login"} /\ r.token # TokenValido

\* C12: login issues the token only for the access code '1970' and answers
\* any other code with 401; a request to a protected endpoint with another
\* bearer token is answered 401 and changes no stored state.
C12_Autenticacion ==
    /\ [](resp.op = "login" =>
             /\ resp.status = "200" <=> resp.codigo = "1970"
             /\ resp.status = "200" => resp.body.token = TokenValido
             /\ resp.status # "200" =>
                    resp.status = "401" /\ "token" \notin DOMAIN resp.body)
    /\ [](ConOtroToken(resp) => resp.status = "401")
    /\ [][ConOtroToken(resp') => UNCHANGED <<colecciones, uuids, calc_prev, calc_last>>]_vars

C12_Witness ==
    /\ ConOtroToken(resp) /\ resp.status = "401"
    /\ DOMAIN medicamentos # {} /\ DOMAIN pacientes # {}

\* the stored prices of a medication are the calculator's output for the
\* pricing inputs stored with it
PreciosDeLaCalculadora(m) ==
    LET precios == calcular_precios_farmacia_detallado(m.costo_unitario, m.impuesto,
                       m.escala_compra, m.descuento_aplicable)
    IN  /\ precios.estado = "return"
        /\ m.costo_real = precios.ret.costo_real
        /\ m.precio_base = precios.ret.precio_base
        /\ m.precio_publico = precios.ret.precio_publico
        /\ m.margen_utilidad = precios.ret.margen_utilidad_final

GuardadoConExito(r) ==
    r.op \in {"crear_medicamento", "actualizar_medicamento"} /\ r.status = "200"

\* C13: after crear_medicamento or actualizar_medicamento succeeds the
\* stored document carries the request's pricing inputs and the
\* calculator's costo_real, precio_base, precio_publico and margin for
\* them; actualizar_medicamento answers 404 exactly for an id that is not
\* stored, and that request stores nothing.
C13_PreciosGuardados ==
    /\ [](GuardadoConExito(resp) =>
             /\ Existe(medicamentos, resp.body.id)
             /\ medicamentos[resp.body.id] = resp.body
             /\ PreciosDeLaCalculadora(medicamentos[resp.body.id]))
    /\ [](\A id \in DOMAIN medicamentos : PreciosDeLaCalculadora(medicamentos[id]))
    /\ [](resp.op = "actualizar_medicamento" =>
             (resp.status = "404" <=> ~Existe(medicamentos, resp.medicamento_id)))
    /\ [][(resp'.op = "actualizar_medicamento" /\ resp'.status = "404")
             => UNCHANGED <<colecciones, uuids>>]_vars

C13_Witness ==
    /\ GuardadoConExito(resp) /\ resp.op = "actualizar_medicamento"
    /\ resp.body.precio_base = Rat(5556, 100)
    /\ medicamentos[resp.body.id].precio_publico = Rat(5556, 100)

AlertasGeneradas == resp.op = "generar_alertas_farmacia" /\ resp.pc = "done"

\* the days until the expiry of a medication whose date parses
TieneVencimiento(med) == "fecha_vencimiento" \in DOMAIN med /\ med.fecha_vencimiento.iso

DiasHastaVencimiento(med, hoy) == med.fecha_vencimiento.dia - hoy

AlertasDeVencimiento(alertas, id) ==
    {k \in 1..Len(alertas) :
        alertas[k].tipo = "vencimiento_cercano" /\ alertas[k].medicamento_id = id}

\* C14: generar_alertas_farmacia emits a vencimiento_cercano alert for a
\* medication exactly when its days until expiry lie in [0, 28] (one
\* alert); its priority is 'alta' when the days are <= 14 and 'media'
\* otherwise, and dias_restantes is the days until expiry.
C14_VencimientoCercano ==
    AlertasGeneradas =>
        \A i \in 1..Len(medicamentos) :
            /\ AlertasDeVencimiento(resp.alertas, i) # {}
                   <=> /\ TieneVencimiento(medicamentos[i])
                       /\ DiasHastaVencimiento(medicamentos[i], resp.hoy) \in 0..28
            /\ Cardinality(AlertasDeVencimiento(resp.alertas, i)) <= 1
            /\ \A k \in AlertasDeVencimiento(resp.alertas, i) :
                   /\ resp.alertas[k].dias_restantes
                          = DiasHastaVencimiento(medicamentos[i], resp.hoy)
                   /\ resp.alertas[k].prioridad
                          = IF DiasHastaVencimiento(medicamentos[i], resp.hoy) <= 14
                            THEN "alta" ELSE "media"

C14_Witness ==
    /\ AlertasGeneradas /\ Len(medicamentos) = 2 /\ Len(resp.alertas) = 2
    /\ resp.alertas[1].tipo = "vencimiento_cercano"
    /\ resp.alertas[2].tipo = "vencimiento_cercano"
    /\ resp.alertas[1].dias_restantes = 14 /\ resp.alertas[1].prioridad = "alta"
    /\ resp.alertas[2].dias_restantes = 15 /\ resp.alertas[2].prioridad = "media"

StockBajo(med) == med.stock <= med.stock_minimo

AlertasDeStock(alertas, id) ==
    {k \in 1..Len(alertas) : alertas[k].tipo = "stock_bajo" /\ alertas[k].medicamento_id = id}

\* C15: the 'alertas' list of the alerts endpoint holds a stock_bajo alert
\* for every stored medication whose stock is <= its stock_minimo, and
\* alertas_por_tipo.stock_bajo is the number of such medications.
C15_AlertasDeStockBajo ==
    (resp.op = "get_alertas_farmacia" /\ resp.status = "200")
        => /\ \A id \in DOMAIN medicamentos :
                  StockBajo(medicamentos[id])
                      => AlertasDeStock(resp.body.alertas, id) # {}
           /\ resp.body.alertas_por_tipo.stock_bajo
                  = Cardinality({id \in DOMAIN medicamentos : StockBajo(medicamentos[id])})

\* the step answers a restock request for a medication that was stored
RestockDeExistente ==
    resp'.op = "aplicar_restock" /\ Existe(medicamentos, resp'.medicamento_id)

\* the step answers a restock request for an id that was not stored
RestockDeDesconocido ==
    resp'.op = "aplicar_restock" /\ ~Existe(medicamentos, resp'.medicamento_id)

\* after the step the medication has the stock it had plus stock_inicial
\* and no STOCK_AGOTADO alert is left for it
Reabastecido ==
    /\ medicamentos'[resp'.medicamento_id].stock
           = medicamentos[resp'.medicamento_id].stock + resp'.stock_inicial
    /\ resp'.body.nuevo_stock = medicamentos'[resp'.medicamento_id].stock
    /\ \A k \in 1..Len(alertas_farmacia') :
           ~(alertas_farmacia'[k].medicamento_id = resp'.medicamento_id
                /\ alertas_farmacia'[k].tipo = "STOCK_AGOTADO")

DesconocidoSinCambios ==
    RestockDeDesconocido
        => resp'.status = "404" /\ UNCHANGED <<medicamentos, alertas_farmacia>>

\* C19: aplicar_restock on an existing medication sets its stock
\* to the previous stock plus stock_inicial and leaves no STOCK_AGOTADO
\* alert for it; on an unknown id it returns 404 and changes neither
\* medications nor alerts.
C19_Restock ==
    [][(RestockDeExistente => resp'.status = "200" /\ Reabastecido)
          /\ DesconocidoSinCambios]_vars

\* C19, what the handler does guarantee: a restock of an existing
\* medication either succeeds, with the stock and the alerts as stated, or
\* its price calculation raises, and then the answer is 500 and medications
\* and alerts are unchanged; alerts of other medications are kept.
C19_RestockConExito ==
    [][/\ RestockDeExistente =>
              \/ resp'.status = "200" /\ Reabastecido
              \/ /\ resp'.status = "500"
                 /\ UNCHANGED <<medicamentos, alertas_farmacia>>
       /\ (RestockDeExistente /\ resp'.status = "200") =>
              \A k \in 1..Len(alertas_farmacia') :
                  \E j \in 1..Len(alertas_farmacia) :
                      alertas_farmacia'[k] = alertas_farmacia[j]
       /\ DesconocidoSinCambios]_vars

C19_Witness ==
    /\ resp.op = "aplicar_restock" /\ resp.status = "200"
    /\ medicamentos[resp.medicamento_id].stock = resp.stock_inicial
    /\ medicamentos[resp.medicamento_id].ventas_mes > 0
    /\ alertas_farmacia = <<>>

\* the step records a quick sale; the medication sold is that of the
\* sale's only item
VentaRapidaRegistrada == resp'.op = "crear_venta_rapida" /\ resp'.status = "200"

MedicamentoVendido == ventas'[Len(ventas')].items[1].medicamento_id

IMCCalculado ==
    /\ resp.op = "calcular_imc_y_estado_nutricional" /\ resp.pc = "done"
    /\ resp.out.estado = "return"

\* the state documented on the enum for an IMC, where it documents one
EstadoDocumentado(imc, estado) ==
    /\ RLt(imc, R(16)) => estado = "desnutrido"
    /\ (RLe(R(16), imc) /\ RLe(imc, Rat(249, 10))) => estado = "normal"
    /\ (RLe(R(25), imc) /\ RLe(imc, Rat(299, 10))) => estado = "obesidad_leve"
    /\ (RLe(R(30), imc) /\ RLe(imc, Rat(349, 10))) => estado = "obesidad_moderada"
    /\ RGe(imc, R(35)) => estado = "obesidad_morbida"

\* C17: calcular_imc_y_estado_nutricional gives every IMC the state
\* documented on the enum, and obesidad_morbida only to an IMC >= 35.
C17_EstadoNutricional ==
    IMCCalculado
        => /\ EstadoDocumentado(resp.out.imc, resp.out.ret[2])
           /\ resp.out.ret[2] = "obesidad_morbida" => RGe(resp.out.imc, R(35))

\* an IMC between 24.9 and 25 is classified obesidad_morbida
C17_Witness ==
    /\ IMCCalculado
    /\ resp.peso = Rat(721, 10) /\ resp.altura = Rat(17, 10)
    /\ RGt(resp.out.imc, Rat(249, 10)) /\ RLt(resp.out.imc, R(25))
    /\ resp.out.ret[2] = "obesidad_morbida"

(***************************************************************************)
(* C16, C18: the CIE-10 classifier                                         *)
(***************************************************************************)
\* POST /cie10/clasificar answered with the classification of the rules
PorReglas ==
    /\ resp.op = "clasificar_diagnostico_inteligente" /\ resp.pc = "done"
    /\ resp.status = "200" /\ resp.body.metodo = "reglas"

\* the diagnoses of test_automatic_cie10_classification and the codes it expects
CasosDePrueba ==
    {[diagnostico |-> <<"f", "i", "e", "b", "r", "e">>, codigo |-> <<"R", "5", "0">>],
     [diagnostico |-> <<"d", "i", "a", "r", "r", "e", "a">>, codigo |-> <<"A", "0", "9">>],
     [diagnostico |-> <<"a", "s", "m", "a">>, codigo |-> <<"J", "4", "5">>],
     [diagnostico |-> <<"o", "t", "i", "t", "i", "s">>, codigo |-> <<"H", "6", "6">>],
     [diagnostico |-> <<"b", "r", "o", "n", "q", "u", "i", "t", "i", "s">>, codigo |-> <<"J", "2", "0">>]}

\* response.get('capitulo') is true
ConCapitulo == resp.body.capitulo \notin {"", "None"}

ReglasAplicadas == resp.op = "clasificar_cie10_inteligente" /\ resp.pc = "done"

\* C18: a diagnosis equal, up to case, to a keyword of the table gets the
\* code the table maps that keyword to
C18_BusquedaExacta ==
    ReglasAplicadas
        => \A i \in DOMAIN clasificaciones :
               lower(resp.diagnostico) = clasificaciones[i].palabra
                   => resp.out = clasificaciones[i].codigo

\* 'Tos Ferina' is a keyword of the table up to case, and gets the code of 'tos'
C18_Witness ==
    /\ ReglasAplicadas
    /\ resp.diagnostico = <<"T", "o", "s", " ", "F", "e", "r", "i", "n", "a">>
    /\ \E i \in DOMAIN clasificaciones :
           /\ clasificaciones[i].palabra = lower(resp.diagnostico)
           /\ clasificaciones[i].codigo = <<"A", "3", "7", ".", "9">>
    /\ resp.out = <<"R", "0", "5">>

(***************************************************************************)
(* C21, C22, C23, C28: sales, one request after another                    *)
(***************************************************************************)
\* the request answered in this step is a POST /ventas
RespondeVenta == resp'.op = "crear_venta"

\* the request answered in this step is a POST /ventas/venta-rapida
RespondeVentaRapida == resp'.op = "crear_venta_rapida"

\* the item's medication is not stored when the request arrives
Desconocido(item) == ~Existe(medicamentos, item.medicamento_id)

\* the item asks for more than the stock stored when the request arrives
SinStock(item) == ~Desconocido(item) /\ medicamentos[item.medicamento_id].stock < item.cantidad

\* the first item of the list that is unknown or asks for too much, 0 if none
PrimerRechazo(items) ==
    IF \E i \in DOMAIN items : Desconocido(items[i]) \/ SinStock(items[i])
    THEN Primera({i \in DOMAIN items : Desconocido(items[i]) \/ SinStock(items[i])})
    ELSE 0

\* C21: crear_venta answers 400 to an empty list, 404 when the first item
\* it cannot sell is of an unknown medication and 400 when it asks for more
\* than the stock; crear_venta_rapida answers 404 to an unknown medication
\* and 400 to a quantity above the stock; a rejected request records no sale
C21_VentasRechazadas ==
    [][/\ RespondeVenta =>
              /\ resp'.items = <<>> => resp'.status = "400"
              /\ PrimerRechazo(resp'.items) # 0 =>
                     resp'.status = IF Desconocido(resp'.items[PrimerRechazo(resp'.items)])
                                    THEN "404" ELSE "400"
              /\ resp'.status \in {"400", "404"} => ventas' = ventas
       /\ RespondeVentaRapida =>
              /\ Desconocido(resp') => resp'.status = "404"
              /\ SinStock(resp') => resp'.status = "400"
              /\ resp'.status \in {"400", "404"} => ventas' = ventas]_vars

\* a sale of two items was rejected with 400 at its second item, which asks
\* for more than the stock, and no sale is recorded
C21_Witness ==
    /\ resp.op = "crear_venta" /\ resp.status = "400"
    /\ Len(resp.items) = 2
    /\ Existe(medicamentos, resp.items[1].medicamento_id)
    /\ Existe(medicamentos, resp.items[2].medicamento_id)
    /\ ventas = <<>>

\* C22: every stored medication has a stock of 0 or more, whatever sales
\* of crear_venta and crear_venta_rapida were made one after another
C22_StockNoNegativo == \A id \in DOMAIN medicamentos : medicamentos[id].stock >= 0

\* a recorded sale whose two items name the same medication, each within
\* the stock read before the loop, has left the stock below 0
C22_Witness ==
    /\ resp.op = "crear_venta" /\ resp.status = "200"
    /\ Len(resp.items) = 2
    /\ resp.items[1].medicamento_id = resp.items[2].medicamento_id
    /\ medicamentos[resp.items[1].medicamento_id].stock < 0
    /\ Len(ventas) = 1

\* C23: a crear_venta that is rejected leaves every medication as it was:
\* no stock and no ventas_mes is changed by a request that records no sale
C23_RechazoSinCambios ==
    [][RespondeVenta /\ resp'.status \in {"400", "404"} => medicamentos' = medicamentos]_vars

\* a sale was rejected with 404 at its second item, and the stock of the
\* medication of its first item has been decremented, with no sale recorded
C23_Witness ==
    /\ resp.op = "crear_venta" /\ resp.status = "404"
    /\ Len(resp.items) = 2
    /\ Existe(medicamentos, resp.items[1].medicamento_id)
    /\ medicamentos[resp.items[1].medicamento_id].ventas_mes = resp.items[1].cantidad
    /\ ventas = <<>>

\* the stored prices of the medication keep the margin: sold at the public
\* price less its own discount, it leaves 24.5% or more of that price
MargenGuardado(med) ==
    /\ RGt(RMul(med.precio_publico, RSub(Uno, RDiv(med.descuento_aplicable, Cien))), Cero)
    /\ RGe(RMul(R(100), RSub(RMul(med.precio_publico, RSub(Uno, RDiv(med.descuento_aplicable, Cien))), med.costo_real)), RMul(Rat(245, 10), RMul(med.precio_publico, RSub(Uno, RDiv(med.descuento_aplicable, Cien)))))

\* C28: a recorded sale of medications whose stored prices keep the margin
\* has utilidad_bruta = total_venta - total_costo of 0 or more
C28_UtilidadNoNegativa ==
    \A v \in DOMAIN ventas :
        (\A i \in DOMAIN ventas[v].items :
             /\ Existe(medicamentos, ventas[v].items[i].medicamento_id)
             /\ MargenGuardado(medicamentos[ventas[v].items[i].medicamento_id]))
            => /\ ventas[v].utilidad_bruta = RSub(ventas[v].total_venta, ventas[v].total_costo)
               /\ RGe(ventas[v].utilidad_bruta, Cero)

\* crear_venta has recorded, for a medication whose prices keep the margin,
\* a sale with an item discount of 50% and a utilidad_bruta below 0
C28_Witness ==
    /\ resp.op = "crear_venta" /\ resp.status = "200"
    /\ Len(resp.items) = 1
    /\ resp.items[1].descuento_aplicado = R(50)
    /\ MargenGuardado(medicamentos[resp.items[1].medicamento_id])
    /\ RLt(ventas[Len(ventas)].utilidad_bruta, Cero)

(***************************************************************************)
(* C26, C27: the stored prices                                             *)
(***************************************************************************)
\* what the calculator returns for the pricing fields stored in med
PreciosDelRegistro(med) ==
    calcular_precios_farmacia_detallado(med.costo_unitario, med.impuesto, med.escala_compra,
                                        med.descuento_aplicable)

\* C26: the precio_publico of every stored medication is the public price
\* the calculator gives for the costo_unitario, impuesto, escala_compra and
\* descuento_aplicable stored in the same record
C26_PrecioPublicoDelRegistro ==
    \A id \in DOMAIN medicamentos :
        /\ PreciosDelRegistro(medicamentos[id]).estado = "return"
        /\ medicamentos[id].precio_publico = PreciosDelRegistro(medicamentos[id]).ret.precio_publico

\* a medication with a discount of 10% has been restocked, and its stored
\* public price is the one the calculator gives for no discount
C26_Witness ==
    /\ resp.op = "aplicar_restock" /\ resp.status = "200"
    /\ medicamentos[resp.medicamento_id].descuento_aplicable = R(10)
    /\ medicamentos[resp.medicamento_id].precio_publico = resp.body.nuevos_precios.precio_publico
    /\ medicamentos[resp.medicamento_id].precio_publico = medicamentos[resp.medicamento_id].precio_base
    /\ medicamentos[resp.medicamento_id].precio_publico # PreciosDelRegistro(medicamentos[resp.medicamento_id]).ret.precio_publico

\* C27: the prices stored by crear_medicamento keep the margin: sold at
\* precio_publico less descuento_aplicable the medication leaves 24.5% or
\* more, and precio_base > costo_real > 0
C27_MargenDeLoGuardado ==
    \A id \in DOMAIN medicamentos :
        /\ MargenGuardado(medicamentos[id])
        /\ RGt(medicamentos[id].precio_base, medicamentos[id].costo_real)
        /\ RGt(medicamentos[id].costo_real, Cero)

\* a medication of cost 0.01, no tax, no scale and no discount is stored
\* with costo_real, precio_base and precio_publico all 0.01
C27_Witness ==
    /\ resp.op = "crear_medicamento" /\ resp.status = "200"
    /\ medicamentos[1].costo_unitario = Rat(1, 100)
    /\ medicamentos[1].impuesto = R(0) /\ medicamentos[1].descuento_aplicable = R(0)
    /\ medicamentos[1].escala_compra = sin_escala
    /\ medicamentos[1].costo_real = Rat(1, 100)
    /\ medicamentos[1].precio_base = Rat(1, 100)
    /\ medicamentos[1].precio_publico = Rat(1, 100)

(***************************************************************************)
(* C29: appointments and patients                                          *)
(***************************************************************************)
\* C29: the paciente_id of every stored appointment is the id of a stored
\* patient
C29_CitasDePacientes ==
    \A i \in DOMAIN citas : Existe(pacientes, citas[i].paciente_id)

\* a patient was deleted and an appointment made for them is still stored
C29_Witness ==
    /\ resp.op = "eliminar_paciente" /\ resp.status = "200"
    /\ Len(citas) = 1
    /\ ~Existe(pacientes, citas[1].paciente_id)

\* the requests in flight are all answered
TodasTerminadas == \A t \in DOMAIN tareas : tareas[t].pc = "fin"

\* request t is a sale, and the units it asks for
EsVenta(t) == tareas[t].peticion.op \in {"crear_venta", "crear_venta_rapida"}

CantidadPedida(t) ==
    IF tareas[t].peticion.op = "crear_venta_rapida" THEN tareas[t].peticion.cantidad
    ELSE IF tareas[t].peticion.op = "crear_venta" THEN tareas[t].peticion.items[1].cantidad
    ELSE 0

\* request t was answered with success
Lograda(t) == tareas[t].pc = "fin" /\ tareas[t].status = "200"

\* the units sold, and the units restocked, by the requests 1..n answered
\* with success
RECURSIVE Vendido(_)
Vendido(n) ==
    IF n = 0 THEN 0
    ELSE Vendido(n - 1) + (IF EsVenta(n) /\ Lograda(n) THEN CantidadPedida(n) ELSE 0)

RECURSIVE Restockeado(_)
Restockeado(n) ==
    IF n = 0 THEN 0
    ELSE Restockeado(n - 1)
         + (IF tareas[n].peticion.op = "aplicar_restock" /\ Lograda(n)
            THEN tareas[n].peticion.stock_inicial ELSE 0)

\* C24: sale requests of one medication that interleave at their awaits do
\* not both succeed when their quantities together exceed the stock they
\* read, and the stock never becomes negative: as long as every request in
\* flight is a sale, the stock is at least 0 and the units of the sales
\* answered with success are at most the stock there was.
C24_VentasConcurrentes ==
    (\A t \in DOMAIN tareas : EsVenta(t))
        => /\ \A id \in DOMAIN medicamentos : medicamentos[id].stock >= 0
           /\ Vendido(Len(tareas)) <= StockConcurrente

\* two sales that both read the stock before either decremented it, both
\* answered with success, and a negative stock
C24_Witness ==
    /\ \A t \in DOMAIN tareas : EsVenta(t) /\ Lograda(t)
    /\ Vendido(Len(tareas)) > StockConcurrente
    /\ medicamentos[1].stock < 0

\* C25: when aplicar_restock and sales of the same medication interleave,
\* once all are answered the stock is the initial stock plus the units
\* restocked minus the units sold.
C25_RestockNoPierdeVentas ==
    TodasTerminadas /\ (\E t \in DOMAIN tareas : tareas[t].peticion.op = "aplicar_restock")
        => medicamentos[1].stock
               = StockConcurrente + Restockeado(Len(tareas)) - Vendido(Len(tareas))

\* a restock and a sale both answered with success, the units sold within
\* the stock there was, and the stock is not what the three numbers give
C25_Witness ==
    /\ TodasTerminadas
    /\ \E t, u \in DOMAIN tareas :
           /\ tareas[t].peticion.op = "aplicar_restock" /\ Lograda(t)
           /\ EsVenta(u) /\ Lograda(u)
    /\ Vendido(Len(tareas)) <= StockConcurrente
    /\ medicamentos[1].stock
           # StockConcurrente + Restockeado(Len(tareas)) - Vendido(Len(tareas))

====
